---- MODULE Spec2Model ----
(***************************************************************************)
(* Model of the transaction analysis of the Bitcoin address analyzer:      *)
(*   src/bitcoin_analysis.py      BitcoinAddressAnalyzer                   *)
(*   src/bubble_map_visualizer.py BitcoinBubbleMapVisualizer               *)
(*                                                                         *)
(* Representation.                                                         *)
(*  - A transaction is a record [confirmed, block_time, vin, vout]; its    *)
(*    txid is its position in the list the upstream API returned.          *)
(*    block_time = 0 stands for a status without the key block_time.       *)
(*  - A leg is [addr, value]; addr = NoAddr stands for a leg without the   *)
(*    key scriptpubkey_address (for an input: in its prevout).             *)
(*  - Amounts are exact multiples of 10^-8 BTC and are represented by the  *)
(*    number of satoshis; the rounding of IEEE doubles is not represented. *)
(*  - A datetime is represented by its number of seconds.                  *)
(*  - A Python dict is a record [keys, val]: keys is the sequence of its   *)
(*    keys in insertion order, val the function from key to value.         *)
(***************************************************************************)
EXTENDS Integers, Sequences, FiniteSets, TLC

\* ------------------------------------------------------------------ bounds
\* Longest transaction list the upstream API returns in the model.
MaxTxs == 3

\* Latest value the wall clock (datetime.now()) takes in the model.
MaxNow == 4

\* Longest transaction list in the runs of analyze_address: one more than
\* the limit of process_transactions.
MaxAnalysisTxs == 11

\* Longest list of timeline entries in a loaded document.
MaxEntries == 3

\* The largest number of related addresses of an analysed address.
MaxRelated == 22

\* The largest number of addresses entered in one session of main.
MaxRuns == 2

\* ------------------------------------------------------------- input space
NoAddr == "none"

Addresses == {"A", "B", "C"}

\* The addresses analysed.
Targets == {"A", "B"}

Leg(a, v) == [addr |-> a, value |-> v]

Tx(c, t, i, o) == [confirmed |-> c, block_time |-> t, vin |-> i, vout |-> o]

\* The transactions the upstream API returns in the model (block times 1, 2).
TxUniverse ==
    { \* B pays A
      Tx(TRUE, 2, <<Leg("B", 2)>>, <<Leg("A", 2)>>),
      \* A spends two outputs, pays C and takes change: several legs of A
      Tx(TRUE, 1, <<Leg("A", 1), Leg("A", 2)>>, <<Leg("C", 2), Leg("A", 1)>>),
      \* unconfirmed: A pays B, no block time
      Tx(FALSE, 0, <<Leg("A", 1)>>, <<Leg("B", 1)>>),
      \* legs without a decodable address
      Tx(TRUE, 2, <<Leg(NoAddr, 2)>>, <<Leg("A", 1), Leg(NoAddr, 1)>>),
      \* A pays itself: net amount zero
      Tx(TRUE, 1, <<Leg("A", 1)>>, <<Leg("A", 1)>>),
      \* C and B pay C: A is no party, C has several legs
      Tx(TRUE, 2, <<Leg("C", 1), Leg("B", 1)>>, <<Leg("C", 2)>>) }

TxLists == UNION { [1..n -> TxUniverse] : n \in 0..MaxTxs }

\* Lists longer than the limit of process_transactions, of two transactions:
\* B pays A, and an unconfirmed payment of A to B.
AnalysisTxUniverse ==
    { Tx(TRUE, 2, <<Leg("B", 2)>>, <<Leg("A", 2)>>),
      Tx(FALSE, 0, <<Leg("A", 1)>>, <<Leg("B", 1)>>) }

AnalysisTxLists ==
    UNION { [1..n -> AnalysisTxUniverse] : n \in 1..MaxAnalysisTxs }

\* ------------------------------------------------------------------- state
VARIABLES
    address,              \* the address analysed
    transactions,         \* the list get_address_transactions returned
    pc,                   \* the operation in progress
    i,                    \* position of its loop in transactions
    related_addresses,    \* analyze_address_clustering: related_addresses
    address_connections,  \* analyze_address_clustering: address_connections
    clustering_data,      \* analyze_address_clustering: the value returned
    processed_transactions, \* process_transactions: processed_transactions
    timeline_data,        \* create_timeline_data: timeline_data
    confirmed_txs,        \* create_timeline_data: confirmed_txs
    total_received,       \* create_timeline_data: total_received
    total_sent,           \* create_timeline_data: total_sent
    address_flows,        \* analyze_transaction_flow: address_flows
    flow_returned,        \* analyze_transaction_flow: "no", "value" or "None"
    tx_details,           \* what get_transaction_details returned, per txid
    now,                  \* the wall clock, datetime.now()
    first_flows,          \* the value an earlier call returned
    data,                 \* app.py: the analysis data read from a JSON file
    dates,                \* create_balance_over_time_plot: dates
    balances,             \* create_balance_over_time_plot: balances
    cumulative_balance,   \* create_balance_over_time_plot: cumulative_balance
    sorted_entries,       \* create_balance_over_time_plot: the sorted list
    balance_plot,         \* its outcome: "no", "value", "None" or "raised"
    top_addresses,        \* analyze_top_addresses: the value returned
    bubble_data,          \* create_bubble_map_data: the value returned
    bubble_sizes,         \* create_bubble_map_plot: bubble_sizes
    node_size,            \* create_flow_network_plot: node_size
    colors,               \* create_bubble_map_plot: colors
    node_color,           \* create_flow_network_plot: node_color
    timeline_list,        \* create_transaction_timeline_plot: the list used
    amounts,              \* create_transaction_timeline_plot: amounts
    tx_types,             \* create_transaction_timeline_plot: tx_types
    timeline_plot,        \* its outcome: "no", "value" or "None"
    network_data,         \* create_network_data: network_data
    analysis_data,        \* BitcoinAddressAnalyzer: self.analysis_data
    prompts,              \* main: the addresses the user enters, in order
    results               \* main: what each address entered has led to

inputVars == <<address, transactions>>

clusterVars == <<related_addresses, address_connections, clustering_data>>

timelineVars ==
    <<processed_transactions, timeline_data, confirmed_txs, total_received,
      total_sent>>

flowVars == <<address_flows, flow_returned, tx_details, now, first_flows>>

balanceVars ==
    <<dates, balances, cumulative_balance, sorted_entries, balance_plot>>

backendVars == <<inputVars, clusterVars, timelineVars, flowVars>>

sizeVars == <<bubble_data, bubble_sizes, node_size, colors, node_color>>

plotVars == <<timeline_list, amounts, tx_types, timeline_plot>>

mainVars == <<network_data, analysis_data, prompts, results>>

restVars == <<plotVars, mainVars>>

appVars == <<data, balanceVars, top_addresses, sizeVars, restVars>>

vars == <<inputVars, pc, i, clusterVars, timelineVars, flowVars, appVars>>

\* ------------------------------------------------------------ Python dicts
EmptyDict == [keys |-> <<>>, val |-> <<>>]

HasKey(d, k) == \E n \in 1..Len(d.keys) : d.keys[n] = k

KeySet(d) == { d.keys[n] : n \in 1..Len(d.keys) }

\* d[k] = v: a new key is appended to the insertion order.
DictSet(d, k, v) ==
    IF HasKey(d, k)
    THEN [d EXCEPT !.val = [x \in DOMAIN d.val |-> IF x = k THEN v ELSE d.val[x]]]
    ELSE [keys |-> Append(d.keys, k),
          val  |-> [x \in KeySet(d) \cup {k} |-> IF x = k THEN v ELSE d.val[x]]]

\* All orders in which iterating a set can yield its elements.
IterationOrders(S) ==
    { s \in [1..Cardinality(S) -> S] : \A m, n \in DOMAIN s : m # n => s[m] # s[n] }

\* Variant: an entry is placed before the entries of equal key.
RECURSIVE InsertByKey_Unstable(_, _)
InsertByKey_Unstable(sorted, x) ==
    IF sorted = <<>> THEN <<x>>
    ELSE IF x.key <= Head(sorted).key THEN <<x>> \o sorted
    ELSE <<Head(sorted)>> \o InsertByKey_Unstable(Tail(sorted), x)

\* list.sort(key=...) and sorted(key=...): a stable sort, ascending by the
\* field key of the decorated entries.
RECURSIVE InsertByKey(_, _)
InsertByKey(sorted, x) ==
    IF sorted = <<>> THEN <<x>>
    ELSE IF x.key < Head(sorted).key THEN <<x>> \o sorted
    ELSE <<Head(sorted)>> \o InsertByKey(Tail(sorted), x)

RECURSIVE StableSort(_)
StableSort(s) ==
    IF s = <<>> THEN <<>>
    ELSE InsertByKey(StableSort(SubSeq(s, 1, Len(s) - 1)), s[Len(s)])

\* ------------------------------------------ analyze_address_clustering
\* tx_addresses: the addresses of the input and output legs of one
\* transaction that carry an address.
TxAddresses(tx) ==
    ({ tx.vin[n].addr : n \in 1..Len(tx.vin) } \cup
     { tx.vout[n].addr : n \in 1..Len(tx.vout) }) \ {NoAddr}

\* Variant: address_connections[addr] = 1 in place of += 1.
RECURSIVE RecordConnections_NoIncrement(_, _, _)
RecordConnections_NoIncrement(conns, iter, target) ==
    IF iter = <<>> THEN conns
    ELSE LET addr == Head(iter)
             next == IF addr # target THEN DictSet(conns, addr, 1) ELSE conns
         IN RecordConnections_NoIncrement(next, Tail(iter), target)

\* Variant: the test "if addr != address" is missing.
RECURSIVE RecordConnections_NoSelfTest(_, _, _)
RecordConnections_NoSelfTest(conns, iter, target) ==
    IF iter = <<>> THEN conns
    ELSE LET addr == Head(iter)
             seen == IF HasKey(conns, addr) THEN conns.val[addr] ELSE 0
         IN RecordConnections_NoSelfTest(DictSet(conns, addr, seen + 1),
                                         Tail(iter), target)

\* The loop "for addr in tx_addresses" over the addresses in the order iter.
RECURSIVE RecordConnections(_, _, _)
RecordConnections(conns, iter, target) ==
    IF iter = <<>> THEN conns
    ELSE LET addr == Head(iter)
             seen == IF HasKey(conns, addr) THEN conns.val[addr] ELSE 0
             next == IF addr # target THEN DictSet(conns, addr, seen + 1)
                     ELSE conns
         IN RecordConnections(next, Tail(iter), target)

\* Variant: the first threshold is met at 5.
Likelihood_FromFive(count) ==
    IF count >= 5 THEN "High" ELSE IF count > 2 THEN "Medium" ELSE "Low"

Likelihood(count) ==
    IF count > 5 THEN "High" ELSE IF count > 2 THEN "Medium" ELSE "Low"

\* sorted(address_connections.items(), key=lambda x: x[1], reverse=True)
\* followed by the loop that builds cluster_analysis.
ClusterAnalysis(conns) ==
    LET items == [n \in 1..Len(conns.keys) |->
                    [key |-> 0 - conns.val[conns.keys[n]],
                     address |-> conns.keys[n],
                     connection_count |-> conns.val[conns.keys[n]]]]
        sorted_connections == StableSort(items)
    IN [n \in 1..Len(sorted_connections) |->
          [address |-> sorted_connections[n].address,
           connection_count |-> sorted_connections[n].connection_count,
           likelihood |-> Likelihood(sorted_connections[n].connection_count)]]

\* create_network_data has not been called.
NoNetwork ==
    [returned |-> "no", main_address |-> "", nodes |-> <<>>, edges |-> <<>>,
     graph_metrics |-> [total_nodes |-> 0, total_edges |-> 0,
                        related_addresses_count |-> 0]]

NoClustering ==
    [related_addresses |-> <<>>, connection_details |-> EmptyDict,
     cluster_analysis |-> <<>>]

ClusterBegin(from) ==
    /\ pc = from
    /\ pc' = "cluster"
    /\ i' = 1
    /\ related_addresses' = {}
    /\ address_connections' = EmptyDict
    /\ clustering_data' = NoClustering
    /\ UNCHANGED <<inputVars, appVars, timelineVars, flowVars>>

\* analyze_address_clustering called on its own.
ClusterStart == ClusterBegin("start")

\* analyze_address: the call of analyze_address_clustering, which follows
\* display_recent_transactions.
AnalyseCluster == ClusterBegin("processed")

\* One iteration of "for tx in transactions".
ClusterStep ==
    /\ pc = "cluster"
    /\ i <= Len(transactions)
    /\ LET tx_addresses == TxAddresses(transactions[i])
       IN IF address \in tx_addresses
          THEN /\ \E iter \in IterationOrders(tx_addresses) :
                    address_connections' =
                        RecordConnections(address_connections, iter, address)
               /\ related_addresses' =
                    related_addresses \cup (tx_addresses \ {address})
          ELSE UNCHANGED <<related_addresses, address_connections>>
    /\ i' = i + 1
    /\ UNCHANGED <<inputVars, appVars, pc, clustering_data, timelineVars, flowVars>>

\* The code after the loop: list(related_addresses) takes the set in any
\* order.
ClusterFinish ==
    /\ pc = "cluster"
    /\ i > Len(transactions)
    /\ \E listed \in IterationOrders(related_addresses) :
         clustering_data' =
            [related_addresses |-> listed,
             connection_details |-> address_connections,
             cluster_analysis |-> ClusterAnalysis(address_connections)]
    /\ pc' = "clustered"
    /\ UNCHANGED <<inputVars, appVars, i, related_addresses, address_connections,
                   timelineVars, flowVars>>

\* ------------------------------------------------------------- amounts
\* satoshis / 100000000: the BTC amount, held as its number of satoshis.
satoshi_to_btc(satoshis) == satoshis

\* Variant: abs() is missing, the signed amount is used.
Abs_Signed(x) == x

Abs(x) == IF x < 0 THEN 0 - x ELSE x

\* Variant: the comparison of the leg's address with address is missing.
RECURSIVE SumLegs_AnyAddress(_, _)
SumLegs_AnyAddress(legs, addr) ==
    IF legs = <<>> THEN 0
    ELSE Head(legs).value + SumLegs_AnyAddress(Tail(legs), addr)

\* The loops "for vin in tx.get('vin', [])" and "for vout in
\* tx.get('vout', [])": the values of the legs whose address is addr.
RECURSIVE SumLegs(_, _)
SumLegs(legs, addr) ==
    IF legs = <<>> THEN 0
    ELSE (IF Head(legs).addr = addr THEN Head(legs).value ELSE 0)
         + SumLegs(Tail(legs), addr)

\* ------------------------------------------------- process_transactions
\* limit=10
Limit == 10

ProcessedTx(tx, txid, addr) ==
    LET amount_out == SumLegs(tx.vin, addr)
        amount_in  == SumLegs(tx.vout, addr)
        net_amount == amount_in - amount_out
    IN [txid |-> txid,
        confirmed |-> tx.confirmed,
        block_time |-> IF tx.confirmed THEN tx.block_time ELSE 0,
        amount_in_satoshis |-> amount_in,
        amount_out_satoshis |-> amount_out,
        net_amount_satoshis |-> net_amount,
        net_amount_btc |-> satoshi_to_btc(net_amount),
        transaction_type |-> IF net_amount > 0 THEN "Received" ELSE "Sent"]

ProcessStart ==
    /\ pc = "start"
    /\ pc' = "process"
    /\ i' = 1
    /\ processed_transactions' = <<>>
    /\ UNCHANGED <<inputVars, appVars, clusterVars, timeline_data, confirmed_txs,
                   total_received, total_sent, flowVars>>

\* One iteration of "for i, tx in enumerate(transactions[:limit])"; a
\* confirmed record without block_time raises KeyError out of the function.
ProcessStep ==
    /\ pc = "process"
    /\ i <= Len(transactions)
    /\ i <= Limit
    /\ IF transactions[i].confirmed /\ transactions[i].block_time = 0
       THEN /\ pc' = "raised"
            /\ UNCHANGED <<i, processed_transactions>>
       ELSE /\ processed_transactions' =
                 Append(processed_transactions,
                        ProcessedTx(transactions[i], i, address))
            /\ i' = i + 1
            /\ pc' = pc
    /\ UNCHANGED <<inputVars, appVars, clusterVars, timeline_data, confirmed_txs,
                   total_received, total_sent, flowVars>>

ProcessFinish ==
    /\ pc = "process"
    /\ i > Len(transactions) \/ i > Limit
    /\ pc' = "processed"
    /\ UNCHANGED <<inputVars, appVars, i, clusterVars, timelineVars, flowVars>>

\* ---------------------------------------------------- create_timeline_data
\* timeline_data before the loop; returned tells whether and what the
\* function has returned: "no" (running), "value" or "None".
NoTimeline ==
    [returned |-> "no", transactions |-> <<>>, summary_stats |-> <<>>]

\* datetime.fromtimestamp(timestamp): the calendar fields of a time. The
\* model's clock ticks twice a month, from January 1970; rest is the position
\* within the month (day and time of day).
\* The value is naive (aware = FALSE): it carries no UTC offset.
fromtimestamp(timestamp) ==
    [year  |-> 1970 + ((timestamp \div 2) \div 12),
     month |-> ((timestamp \div 2) % 12) + 1,
     rest  |-> timestamp % 2,
     aware |-> FALSE]

\* date.isoformat(): the text "YYYY-MM-<rest>" and, for an aware value, its
\* offset. A text is held as the sequence of its date fields (empty when it
\* has none) and the characters that follow them.
isoformat(date) ==
    [date |-> <<date.year, date.month, date.rest>>,
     tail |-> IF date.aware THEN "+00:00" ELSE ""]

\* text.replace('Z', '+00:00')
ReplaceZ(text) == [text EXCEPT !.tail = IF @ = "Z" THEN "+00:00" ELSE @]

\* The texts datetime.fromisoformat accepts; any other raises ValueError.
IsIsoText(text) == Len(text.date) = 3 /\ text.tail \in {"", "+00:00"}

\* datetime.fromisoformat(text): the calendar fields read back from the text,
\* aware when the text ends with an offset.
fromisoformat(text) ==
    [year |-> text.date[1], month |-> text.date[2], rest |-> text.date[3],
     aware |-> text.tail = "+00:00"]

\* f"{date.year}-{date.month:02d}"
MonthKey(date) == <<date.year, date.month>>

\* The value a month gets when its key is first met.
ZeroMonth ==
    [transaction_count |-> 0, total_received |-> 0, total_sent |-> 0,
     net_flow |-> 0]

\* Variant: net_flow adds the amount of a sent point too.
AddToMonth_NetAdds(monthly_stats, tx) ==
    LET month_key == MonthKey(fromisoformat(ReplaceZ(tx.formatted_date)))
        stats == IF HasKey(monthly_stats, month_key)
                 THEN monthly_stats.val[month_key] ELSE ZeroMonth
    IN DictSet(monthly_stats, month_key,
         IF tx.type = "Received"
         THEN [stats EXCEPT !.transaction_count = @ + 1,
                            !.total_received = @ + tx.amount_btc,
                            !.net_flow = @ + tx.amount_btc]
         ELSE [stats EXCEPT !.transaction_count = @ + 1,
                            !.total_sent = @ + tx.amount_btc,
                            !.net_flow = @ + tx.amount_btc])

\* One iteration of the loop of _calculate_monthly_activity.
AddToMonth(monthly_stats, tx) ==
    LET month_key == MonthKey(fromisoformat(ReplaceZ(tx.formatted_date)))
        stats == IF HasKey(monthly_stats, month_key)
                 THEN monthly_stats.val[month_key] ELSE ZeroMonth
    IN DictSet(monthly_stats, month_key,
         IF tx.type = "Received"
         THEN [stats EXCEPT !.transaction_count = @ + 1,
                            !.total_received = @ + tx.amount_btc,
                            !.net_flow = @ + tx.amount_btc]
         ELSE [stats EXCEPT !.transaction_count = @ + 1,
                            !.total_sent = @ + tx.amount_btc,
                            !.net_flow = @ - tx.amount_btc])

\* _calculate_monthly_activity(transactions)
RECURSIVE calculate_monthly_activity(_)
calculate_monthly_activity(txs) ==
    IF txs = <<>> THEN EmptyDict
    ELSE AddToMonth(calculate_monthly_activity(SubSeq(txs, 1, Len(txs) - 1)),
                    txs[Len(txs)])

\* Variant: a net amount of zero is classified as received.
TxData_ZeroReceived(tx, txid, addr) ==
    LET amount_out == SumLegs(tx.vin, addr)
        amount_in  == SumLegs(tx.vout, addr)
        net_amount_satoshis == amount_in - amount_out
        net_amount_btc == satoshi_to_btc(net_amount_satoshis)
    IN [txid |-> txid,
        timestamp |-> tx.block_time,
        formatted_date |-> isoformat(fromtimestamp(tx.block_time)),
        amount_btc |-> Abs(net_amount_btc),
        amount_satoshis |-> Abs(net_amount_satoshis),
        net_amount_btc |-> net_amount_btc,
        net_amount_satoshis |-> net_amount_satoshis,
        type |-> IF net_amount_btc >= 0 THEN "Received" ELSE "Sent"]

TxData(tx, txid, addr) ==
    LET amount_out == SumLegs(tx.vin, addr)
        amount_in  == SumLegs(tx.vout, addr)
        net_amount_satoshis == amount_in - amount_out
        net_amount_btc == satoshi_to_btc(net_amount_satoshis)
    IN [txid |-> txid,
        timestamp |-> tx.block_time,
        formatted_date |-> isoformat(fromtimestamp(tx.block_time)),
        amount_btc |-> Abs(net_amount_btc),
        amount_satoshis |-> Abs(net_amount_satoshis),
        net_amount_btc |-> net_amount_btc,
        net_amount_satoshis |-> net_amount_satoshis,
        type |-> IF net_amount_btc > 0 THEN "Received" ELSE "Sent"]

\* timeline_data['transactions'].sort(key=lambda x: x['timestamp'])
SortByTimestamp(txs) ==
    LET decorated == [n \in 1..Len(txs) |->
                        [key |-> txs[n].timestamp, item |-> txs[n]]]
        sorted == StableSort(decorated)
    IN [n \in 1..Len(sorted) |-> sorted[n].item]

\* The code up to the loop; an empty list returns at once.
TimelineBegin(from) ==
    /\ pc = from
    /\ confirmed_txs' = <<>>
    /\ total_received' = 0
    /\ total_sent' = 0
    /\ i' = 1
    /\ IF transactions = <<>>
       THEN /\ timeline_data' = [NoTimeline EXCEPT !.returned = "value"]
            /\ pc' = "timelined"
       ELSE /\ timeline_data' = NoTimeline
            /\ pc' = "timeline"
    /\ UNCHANGED <<inputVars, appVars, clusterVars, processed_transactions,
                   flowVars>>

TimelineStart == TimelineBegin("processed")

\* analyze_address: the call of create_timeline_data, which follows the
\* clustering.
AnalyseTimeline == TimelineBegin("clustered")

\* Variant: the test of status.confirmed is missing, every transaction gets
\* a point.
TimelineStep_Unfiltered ==
    /\ pc = "timeline"
    /\ i <= Len(transactions)
    /\ LET tx_data == TxData(transactions[i], i, address)
       IN /\ timeline_data' =
               [timeline_data EXCEPT !.transactions = Append(@, tx_data)]
          /\ confirmed_txs' = Append(confirmed_txs, tx_data)
          /\ IF tx_data.net_amount_btc > 0
             THEN /\ total_received' = total_received + tx_data.net_amount_btc
                  /\ UNCHANGED total_sent
             ELSE /\ total_sent' = total_sent + Abs(tx_data.net_amount_btc)
                  /\ UNCHANGED total_received
    /\ i' = i + 1
    /\ pc' = pc
    /\ UNCHANGED <<inputVars, appVars, clusterVars, processed_transactions,
                   flowVars>>

\* One iteration of "for tx in transactions"; a confirmed record without
\* block_time raises KeyError, which the except clause turns into None.
TimelineStep ==
    /\ pc = "timeline"
    /\ i <= Len(transactions)
    /\ LET tx == transactions[i]
           tx_data == TxData(tx, i, address)
       IN IF ~tx.confirmed
          THEN /\ i' = i + 1
               /\ UNCHANGED <<pc, timeline_data, confirmed_txs, total_received,
                              total_sent>>
          ELSE IF tx.block_time = 0
          THEN /\ timeline_data' = [NoTimeline EXCEPT !.returned = "None"]
               /\ pc' = "timelined"
               /\ UNCHANGED <<i, confirmed_txs, total_received, total_sent>>
          ELSE /\ timeline_data' =
                    [timeline_data EXCEPT
                       !.transactions = Append(@, tx_data)]
               /\ confirmed_txs' = Append(confirmed_txs, tx_data)
               /\ IF tx_data.net_amount_btc > 0
                  THEN /\ total_received' =
                            total_received + tx_data.net_amount_btc
                       /\ UNCHANGED total_sent
                  ELSE /\ total_sent' =
                            total_sent + Abs(tx_data.net_amount_btc)
                       /\ UNCHANGED total_received
               /\ i' = i + 1
               /\ pc' = pc
    /\ UNCHANGED <<inputVars, appVars, clusterVars, processed_transactions, flowVars>>

\* The code after the loop: the sort and the summary statistics.
TimelineFinish ==
    /\ pc = "timeline"
    /\ i > Len(transactions)
    /\ LET sorted == SortByTimestamp(timeline_data.transactions)
       IN timeline_data' =
            [returned |-> "value",
             transactions |-> sorted,
             summary_stats |->
                [total_confirmed_transactions |-> Len(confirmed_txs),
                 total_received_btc |-> total_received,
                 total_sent_btc |-> total_sent,
                 monthly_activity |-> calculate_monthly_activity(sorted)]]
    /\ pc' = "timelined"
    /\ UNCHANGED <<inputVars, appVars, i, clusterVars, processed_transactions,
                   confirmed_txs, total_received, total_sent, flowVars>>

\* ------------------------------------------------ analyze_transaction_flow
\* first_seen and last_seen before the first leg: None.
None == 0

\* The value of the defaultdict's factory, and of the main address's entry.
ZeroFlow ==
    [total_received |-> 0, total_sent |-> 0, transaction_count |-> 0,
     first_seen |-> None, last_seen |-> None]

\* Variant: the main address is not entered before the loop.
InitialFlows_Empty(addr) == EmptyDict

\* address_flows after "Initialize with the main address".
InitialFlows(addr) == DictSet(EmptyDict, addr, ZeroFlow)

\* tx_date: the block time, or the clock's time t when tx_time is 0 or absent.
TxDate(tx_time, t) == IF tx_time # 0 THEN tx_time ELSE t

\* Variant: both comparisons reversed.
FoldLeg_Reversed(flows, addr, amount, side, tx_date) ==
    LET old == IF HasKey(flows, addr) THEN flows.val[addr] ELSE ZeroFlow
        sum == IF side = "vin"
               THEN [old EXCEPT !.total_sent = @ + amount,
                                !.transaction_count = @ + 1]
               ELSE [old EXCEPT !.total_received = @ + amount,
                                !.transaction_count = @ + 1]
        fst == IF sum.first_seen = None \/ tx_date > sum.first_seen
               THEN [sum EXCEPT !.first_seen = tx_date] ELSE sum
        lst == IF fst.last_seen = None \/ tx_date < fst.last_seen
               THEN [fst EXCEPT !.last_seen = tx_date] ELSE fst
    IN DictSet(flows, addr, lst)

\* Variant: the totals and the count are assigned, not accumulated.
FoldLeg_Assign(flows, addr, amount, side, tx_date) ==
    LET old == IF HasKey(flows, addr) THEN flows.val[addr] ELSE ZeroFlow
        sum == IF side = "vin"
               THEN [old EXCEPT !.total_sent = amount,
                                !.transaction_count = 1]
               ELSE [old EXCEPT !.total_received = amount,
                                !.transaction_count = 1]
        fst == IF sum.first_seen = None \/ tx_date < sum.first_seen
               THEN [sum EXCEPT !.first_seen = tx_date] ELSE sum
        lst == IF fst.last_seen = None \/ tx_date > fst.last_seen
               THEN [fst EXCEPT !.last_seen = tx_date] ELSE fst
    IN DictSet(flows, addr, lst)

\* Variant: an input leg is not counted in transaction_count.
FoldLeg_InputUncounted(flows, addr, amount, side, tx_date) ==
    LET old == IF HasKey(flows, addr) THEN flows.val[addr] ELSE ZeroFlow
        sum == IF side = "vin"
               THEN [old EXCEPT !.total_sent = @ + amount]
               ELSE [old EXCEPT !.total_received = @ + amount,
                                !.transaction_count = @ + 1]
        fst == IF sum.first_seen = None \/ tx_date < sum.first_seen
               THEN [sum EXCEPT !.first_seen = tx_date] ELSE sum
        lst == IF fst.last_seen = None \/ tx_date > fst.last_seen
               THEN [fst EXCEPT !.last_seen = tx_date] ELSE fst
    IN DictSet(flows, addr, lst)

\* Variant: an output leg is added to total_sent.
FoldLeg_AllSent(flows, addr, amount, side, tx_date) ==
    LET old == IF HasKey(flows, addr) THEN flows.val[addr] ELSE ZeroFlow
        sum == [old EXCEPT !.total_sent = @ + amount,
                           !.transaction_count = @ + 1]
        fst == IF sum.first_seen = None \/ tx_date < sum.first_seen
               THEN [sum EXCEPT !.first_seen = tx_date] ELSE sum
        lst == IF fst.last_seen = None \/ tx_date > fst.last_seen
               THEN [fst EXCEPT !.last_seen = tx_date] ELSE fst
    IN DictSet(flows, addr, lst)

\* The body of the two leg loops for a leg that carries the address addr:
\* side is "vin" for an input and "vout" for an output.
FoldLeg(flows, addr, amount, side, tx_date) ==
    LET old == IF HasKey(flows, addr) THEN flows.val[addr] ELSE ZeroFlow
        sum == IF side = "vin"
               THEN [old EXCEPT !.total_sent = @ + amount,
                                !.transaction_count = @ + 1]
               ELSE [old EXCEPT !.total_received = @ + amount,
                                !.transaction_count = @ + 1]
        fst == IF sum.first_seen = None \/ tx_date < sum.first_seen
               THEN [sum EXCEPT !.first_seen = tx_date] ELSE sum
        lst == IF fst.last_seen = None \/ tx_date > fst.last_seen
               THEN [fst EXCEPT !.last_seen = tx_date] ELSE fst
    IN DictSet(flows, addr, lst)

\* One of the two leg loops: legs without an address are passed over.
RECURSIVE FoldLegs(_, _, _, _)
FoldLegs(flows, legs, side, tx_date) ==
    IF legs = <<>> THEN flows
    ELSE LET leg == Head(legs)
             next == IF leg.addr # NoAddr
                     THEN FoldLeg(flows, leg.addr, satoshi_to_btc(leg.value),
                                  side, tx_date)
                     ELSE flows
         IN FoldLegs(next, Tail(legs), side, tx_date)

\* The loop body for one fetched transaction: inputs, then outputs.
FoldTx(flows, tx, tx_date) ==
    FoldLegs(FoldLegs(flows, tx.vin, "vin", tx_date), tx.vout, "vout", tx_date)

\* The code up to the loop: None when get_address_info fails or the
\* transaction list is empty.
FlowBegin(next_pc, end_pc) ==
    /\ i' = 1
    /\ \E info_ok \in BOOLEAN :
         IF ~info_ok \/ transactions = <<>>
         THEN /\ flow_returned' = "None"
              /\ address_flows' = EmptyDict
              /\ pc' = end_pc
         ELSE /\ flow_returned' = "no"
              /\ address_flows' = InitialFlows(address)
              /\ pc' = next_pc
    /\ UNCHANGED <<inputVars, appVars, clusterVars, timelineVars, now>>

\* One iteration of "for tx in transactions" with the detail record detail
\* (FALSE: get_transaction_details returned None).
FlowFold(detail) ==
    /\ i' = i + 1
    /\ IF ~detail
       THEN UNCHANGED <<address_flows, now>>
       ELSE LET tx == transactions[i] IN
            \E t \in now..MaxNow :
               /\ now' = IF tx.block_time # 0 THEN now ELSE t
               /\ address_flows' =
                    FoldTx(address_flows, tx, TxDate(tx.block_time, t))
    /\ UNCHANGED <<inputVars, appVars, pc, clusterVars, timelineVars, flow_returned,
                   first_flows>>

FlowStart ==
    /\ pc = "timelined"
    /\ FlowBegin("flow", "flowed")
    /\ tx_details' = <<>>
    /\ UNCHANGED first_flows

\* get_transaction_details answers with the record or with None.
FlowStep ==
    /\ pc = "flow"
    /\ i <= Len(transactions)
    /\ \E detail \in BOOLEAN :
         /\ tx_details' = Append(tx_details, detail)
         /\ FlowFold(detail)

FlowFinish ==
    /\ pc = "flow"
    /\ i > Len(transactions)
    /\ flow_returned' = "value"
    /\ pc' = "flowed"
    /\ UNCHANGED <<inputVars, appVars, i, clusterVars, timelineVars, address_flows,
                   tx_details, now, first_flows>>

\* A second call for the same address, answered with the same detail records.
RerunStart ==
    /\ pc = "flowed"
    /\ flow_returned = "value"
    /\ first_flows' = address_flows
    /\ FlowBegin("reflow", "done")
    /\ UNCHANGED tx_details

RerunStep ==
    /\ pc = "reflow"
    /\ i <= Len(transactions)
    /\ FlowFold(tx_details[i])
    /\ UNCHANGED tx_details

RerunFinish ==
    /\ pc = "reflow"
    /\ i > Len(transactions)
    /\ flow_returned' = "value"
    /\ pc' = "done"
    /\ UNCHANGED <<inputVars, appVars, i, clusterVars, timelineVars, address_flows,
                   tx_details, now, first_flows>>

\* ------------------------------------------------- app.py: JSON documents
\* The values of a loaded JSON document, tagged with their Python type. A
\* dict holds a record with the keys it has; for texts see isoformat.
JList(items) == [type |-> "list", items |-> items]

JDict(fields) == [type |-> "dict", fields |-> fields]

JInt(n) == [type |-> "int", value |-> n]

JStr(text) == [type |-> "str", text |-> text]

\* key in d, and d.get(key) with None held as JNone.
JNone == [type |-> "None"]

\* No document is loaded.
NoData == JNone

In(key, d) == key \in DOMAIN d.fields

Get(d, key) == IF In(key, d) THEN d.fields[key] ELSE JNone

\* A text that is no date, and the empty text.
Text(chars) == [date |-> <<>>, tail |-> chars]

EmptyText == Text("")

\* bool(value): None, 0 and the empty text count as false.
Truthy(v) ==
    /\ v.type # "None"
    /\ v.type = "int" => v.value # 0
    /\ v.type = "str" => v.text # EmptyText

\* a or b or c
Or3(a, b, c) == IF Truthy(a) THEN a ELSE IF Truthy(b) THEN b ELSE c

datetime_min == [year |-> 1, month |-> 1, rest |-> 0, aware |-> FALSE]

\* The position of a datetime in the order of its kind (naive or aware).
DatetimeOrd(d) == ((d.year * 12 + d.month) * 2) + d.rest

\* A timeline entry as create_timeline_data exports it, for the block time t
\* and the net amount net.
ExportedPoint(t, net) ==
    JDict([timestamp |-> JInt(t),
           formatted_date |-> JStr(isoformat(fromtimestamp(t))),
           net_amount_btc |-> JInt(net),
           transaction_type |->
               JStr(Text(IF net > 0 THEN "Received" ELSE "Sent"))])

\* The text of an ISO date with the UTC marker "Z", for the time t.
ZuluText(t) ==
    JStr([isoformat(fromtimestamp(t)) EXCEPT !.tail = "Z"])

\* The timeline entries of the documents in the model.
EntryUniverse ==
    { ExportedPoint(1, 5), ExportedPoint(2, 0 - 2), ExportedPoint(3, 1),
      \* an epoch number only
      JDict([timestamp |-> JInt(2), net_amount_btc |-> JInt(1)]),
      \* a date with the UTC marker
      JDict([date |-> ZuluText(3), net_amount_btc |-> JInt(0 - 2)]),
      \* a date that is no date, before an epoch number
      JDict([date |-> JStr(Text("n/a")), timestamp |-> JInt(1),
             net_amount_btc |-> JInt(5)]),
      \* no date at all, as in the records of process_transactions
      JDict([net_amount_btc |-> JInt(1)]),
      \* a date and no amount
      JDict([formatted_date |-> JStr(isoformat(fromtimestamp(2)))]),
      \* not a dict
      JStr(Text("n/a")) }

EntryLists == UNION { [1..n -> EntryUniverse] : n \in 0..MaxEntries }

\* The documents that hold the list of entries: as the timeline that
\* create_timeline_data exports, as a plain list, under another source or
\* container key, or not at all; or a text in the place of the timeline.
Documents(entries) ==
    { JDict([transaction_timeline |->
               JDict([transactions |-> JList(entries),
                      summary_stats |-> JDict([total |-> JInt(Len(entries))])])]),
      JDict([transaction_timeline |-> JList(entries)]),
      JDict([recent_transactions |-> JList(entries)]),
      JDict([transaction_timeline |->
               JDict([transactions |-> JStr(Text("n/a")),
                      items |-> JList(entries)])]),
      JDict([transaction_timeline |-> JDict([entries |-> JList(entries)])]),
      JDict([address_stats |-> JDict([entries |-> JList(entries)])]),
      JDict([transaction_timeline |-> JStr(Text("n/a"))]) }

\* ------------------------------------- app.py: create_balance_over_time_plot
\* def get_date(tx)
get_date(tx) ==
    IF tx.type # "dict" THEN datetime_min
    ELSE LET date_str == Or3(Get(tx, "date"), Get(tx, "formatted_date"),
                             Get(tx, "timestamp"))
         IN IF ~Truthy(date_str) THEN datetime_min
            ELSE IF date_str.type = "int" THEN fromtimestamp(date_str.value)
            ELSE IF date_str.type = "str" /\ IsIsoText(ReplaceZ(date_str.text))
            THEN fromisoformat(ReplaceZ(date_str.text))
            ELSE datetime_min

\* Variant: only the first key is tried.
FirstListKey_FirstOnly(d, keys) ==
    IF keys # <<>> /\ In(Head(keys), d) /\ d.fields[Head(keys)].type = "list"
    THEN Head(keys)
    ELSE ""

\* The first of the keys (in the given order) under which the dict holds a
\* list: the "for key in [...]" loop; "" when the loop finds none.
RECURSIVE FirstListKey(_, _)
FirstListKey(d, keys) ==
    IF keys = <<>> THEN ""
    ELSE IF In(Head(keys), d) /\ d.fields[Head(keys)].type = "list"
    THEN Head(keys)
    ELSE FirstListKey(d, Tail(keys))

ContainerKeys == <<"transactions", "data", "items", "list">>

\* The list the plot functions take from the document: "found" tells
\* whether there is one.
TimelineList(document, sources) ==
    LET source == IF sources = <<>> THEN JNone
                  ELSE IF In(Head(sources), document)
                  THEN document.fields[Head(sources)]
                  ELSE IF Len(sources) > 1 /\ In(sources[2], document)
                  THEN document.fields[sources[2]]
                  ELSE JNone
    IN IF source.type = "list" THEN [found |-> TRUE, items |-> source.items]
       ELSE IF source.type = "dict" /\ FirstListKey(source, ContainerKeys) # ""
       THEN [found |-> TRUE,
             items |-> source.fields[FirstListKey(source, ContainerKeys)].items]
       ELSE [found |-> FALSE, items |-> <<>>]

\* sorted(timeline_data, key=get_date)
SortByDate(entries) ==
    LET decorated == [n \in 1..Len(entries) |->
                        [key |-> DatetimeOrd(get_date(entries[n])),
                         item |-> entries[n]]]
        sorted == StableSort(decorated)
    IN [n \in 1..Len(sorted) |-> sorted[n].item]

\* Sorting compares a naive with an aware datetime, which raises TypeError.
MixedDates(entries) ==
    \E m, n \in 1..Len(entries) :
       get_date(entries[m]).aware /\ ~get_date(entries[n]).aware

\* The code up to the loop: the choice of the list, and the sort.
BalanceStart ==
    /\ pc = "start"
    /\ data # NoData
    /\ LET list == TimelineList(data, <<"transaction_timeline",
                                        "recent_transactions">>)
       IN IF ~list.found
          THEN /\ balance_plot' = "None"
               /\ pc' = "plotted"
               /\ UNCHANGED sorted_entries
          ELSE IF MixedDates(list.items)
          THEN /\ balance_plot' = "raised"
               /\ pc' = "plotted"
               /\ UNCHANGED sorted_entries
          ELSE /\ sorted_entries' = SortByDate(list.items)
               /\ balance_plot' = "no"
               /\ pc' = "balance"
    /\ i' = 1
    /\ dates' = <<>>
    /\ balances' = <<>>
    /\ cumulative_balance' = 0
    /\ UNCHANGED <<backendVars, restVars, data, top_addresses, sizeVars>>

\* One iteration of "for tx in timeline_data".
BalanceStep ==
    /\ pc = "balance"
    /\ i <= Len(sorted_entries)
    /\ LET tx == sorted_entries[i]
           date_obj == get_date(tx)
           net == Get(tx, "net_amount_btc")
       IN IF tx.type = "dict" /\ date_obj # datetime_min
          THEN /\ dates' = Append(dates, date_obj)
               /\ cumulative_balance' =
                    cumulative_balance + (IF net = JNone THEN 0 ELSE net.value)
               /\ balances' = Append(balances, cumulative_balance')
          ELSE UNCHANGED <<dates, cumulative_balance, balances>>
    /\ i' = i + 1
    /\ UNCHANGED <<backendVars, restVars, data, top_addresses, sizeVars, pc, sorted_entries, balance_plot>>

\* "if not dates: return None", else the figure of dates and balances.
BalanceFinish ==
    /\ pc = "balance"
    /\ i > Len(sorted_entries)
    /\ balance_plot' = IF dates = <<>> THEN "None" ELSE "value"
    /\ pc' = "plotted"
    /\ UNCHANGED <<backendVars, restVars, data, top_addresses, sizeVars, i, dates,
                   balances, cumulative_balance,
                   sorted_entries>>

\* --------------------------------- app.py: create_transaction_timeline_plot
\* What the loop makes of the date fields of a dict: a datetime, a failed
\* conversion (ValueError, caught), or none when no field has a true value.
PlotDate(tx) ==
    LET date_str == Or3(Get(tx, "date"), Get(tx, "formatted_date"),
                        Get(tx, "timestamp"))
    IN IF ~Truthy(date_str) THEN [kind |-> "none", value |-> datetime_min]
       ELSE IF date_str.type = "int"
       THEN [kind |-> "date", value |-> fromtimestamp(date_str.value)]
       ELSE IF date_str.type = "str" /\ IsIsoText(ReplaceZ(date_str.text))
       THEN [kind |-> "date", value |-> fromisoformat(ReplaceZ(date_str.text))]
       ELSE [kind |-> "failed", value |-> datetime_min]

\* tx.get(key, default)
GetOr(tx, key, default) == IF In(key, tx) THEN tx.fields[key] ELSE default

\* The code up to the loop: the choice of the list.
TimelinePlotStart ==
    /\ pc = "start"
    /\ data # NoData
    /\ LET list == TimelineList(data, <<"transaction_timeline",
                                        "recent_transactions">>)
       IN IF ~list.found
          THEN /\ timeline_plot' = "None"
               /\ pc' = "drawn"
               /\ UNCHANGED timeline_list
          ELSE /\ timeline_list' = list.items
               /\ timeline_plot' = "no"
               /\ pc' = "timeline_plot"
    /\ i' = 1
    /\ dates' = <<>>
    /\ amounts' = <<>>
    /\ tx_types' = <<>>
    /\ UNCHANGED <<backendVars, data, top_addresses, sizeVars, mainVars,
                   balances, cumulative_balance, sorted_entries, balance_plot>>

\* One iteration of "for tx in timeline_data": an entry that is no dict and
\* one whose date is not converted are left out; the amount and the type
\* are appended also when no date field has a true value.
TimelinePlotStep ==
    /\ pc = "timeline_plot"
    /\ i <= Len(timeline_list)
    /\ LET tx == timeline_list[i]
       IN IF tx.type # "dict" \/ PlotDate(tx).kind = "failed"
          THEN UNCHANGED <<dates, amounts, tx_types>>
          ELSE /\ dates' = IF PlotDate(tx).kind = "date"
                           THEN Append(dates, PlotDate(tx).value)
                           ELSE dates
               /\ amounts' =
                    Append(amounts, GetOr(tx, "net_amount_btc", JInt(0)))
               /\ tx_types' =
                    Append(tx_types,
                           GetOr(tx, "transaction_type", JStr(Text("Unknown"))))
    /\ i' = i + 1
    /\ UNCHANGED <<backendVars, data, top_addresses, sizeVars, mainVars, pc,
                   balances, cumulative_balance, sorted_entries, balance_plot,
                   timeline_list, timeline_plot>>

\* "if not dates: return None", else the figure of dates and amounts.
TimelinePlotFinish ==
    /\ pc = "timeline_plot"
    /\ i > Len(timeline_list)
    /\ timeline_plot' = IF dates = <<>> THEN "None" ELSE "value"
    /\ pc' = "drawn"
    /\ UNCHANGED <<backendVars, data, top_addresses, sizeVars, mainVars, i,
                   balanceVars, timeline_list, amounts, tx_types>>

\* --------------------------------------------- app.py: analyze_top_addresses
\* The addresses of the transactions analysed, in lexical order.
TopAddressOrder ==
    <<"A", "B", "C", "D", "E", "F", "G", "H", "I", "J", "K", "L">>

\* The detail records blockstream.info returns in the model.
TopTxUniverse ==
    { \* L and K pay A: two senders of equal amount, L first
      Tx(TRUE, 1, <<Leg("L", 3), Leg("K", 3)>>, <<Leg("A", 6)>>),
      \* ten addresses pay L
      Tx(TRUE, 2, [n \in 1..10 |-> Leg(TopAddressOrder[n], 1)], <<Leg("L", 10)>>),
      \* B pays D and C and an output without address
      Tx(TRUE, 2, <<Leg("B", 4)>>, <<Leg("D", 1), Leg("C", 1), Leg(NoAddr, 2)>>),
      \* legs of value zero
      Tx(TRUE, 1, <<Leg("A", 0)>>, <<Leg("K", 0)>>) }

TopTxLists == UNION { [1..n -> TopTxUniverse] : n \in 0..MaxTxs }

\* The documents that list n transactions by txid: under all_transactions,
\* under recent_transactions, with an item that is no dict, as no list, or
\* not at all.
TopDocuments(n) ==
    LET items == [k \in 1..n |-> JDict([txid |-> JInt(k)])]
    IN { JDict([all_transactions |-> JList(items)]),
         JDict([recent_transactions |-> JList(items)]),
         JDict([all_transactions |-> JList(items \o <<JStr(Text("n/a"))>>)]),
         JDict([all_transactions |-> JDict([transactions |-> JList(items)])]),
         JDict([address_stats |-> JList(items)]) }

\* What the function has returned: "no" (running), "value" or "None".
NoTop == [returned |-> "no", top_senders |-> <<>>, top_receivers |-> <<>>,
          total_addresses_analyzed |-> 0]

\* The value of the defaultdict's factory.
ZeroTopFlow ==
    [total_received |-> 0, total_sent |-> 0, transaction_count |-> 0,
     address |-> ""]

\* The list the function takes from the document.
TopList(document) ==
    LET source == IF In("all_transactions", document)
                  THEN document.fields["all_transactions"]
                  ELSE IF In("recent_transactions", document)
                  THEN document.fields["recent_transactions"]
                  ELSE JNone
    IN IF source.type = "list" THEN [found |-> TRUE, items |-> source.items]
       ELSE [found |-> FALSE, items |-> <<>>]

\* One leg with an address: the body of one of the two loops over the legs.
TopFoldLeg(flows, addr, amount, side) ==
    LET cur == IF HasKey(flows, addr) THEN flows.val[addr] ELSE ZeroTopFlow
    IN DictSet(flows, addr,
         [total_received |-> cur.total_received + (IF side = "out" THEN amount ELSE 0),
          total_sent |-> cur.total_sent + (IF side = "in" THEN amount ELSE 0),
          transaction_count |-> cur.transaction_count + 1,
          address |-> addr])

RECURSIVE TopFoldLegs(_, _, _)
TopFoldLegs(flows, legs, side) ==
    IF legs = <<>> THEN flows
    ELSE TopFoldLegs(IF Head(legs).addr = NoAddr THEN flows
                     ELSE TopFoldLeg(flows, Head(legs).addr,
                                     satoshi_to_btc(Head(legs).value), side),
                     Tail(legs), side)

\* [:10]
TopN == 10

\* Variant: the slice [:10] is missing.
Rank_Unsliced(flows, field) ==
    LET all == [n \in 1..Len(flows.keys) |->
                  [key |-> 0 - flows.val[flows.keys[n]][field],
                   addr |-> flows.keys[n],
                   data |-> flows.val[flows.keys[n]]]]
        positive == SelectSeq(all, LAMBDA x : x.data[field] > 0)
        sorted == StableSort(positive)
    IN [n \in 1..Len(sorted) |-> [addr |-> sorted[n].addr, data |-> sorted[n].data]]

\* sorted([(addr, data) for addr, data in address_flows.items()
\*         if data[field] > 0], key=lambda x: x[1][field], reverse=True)[:10]
Rank(flows, field) ==
    LET all == [n \in 1..Len(flows.keys) |->
                  [key |-> 0 - flows.val[flows.keys[n]][field],
                   addr |-> flows.keys[n],
                   data |-> flows.val[flows.keys[n]]]]
        positive == SelectSeq(all, LAMBDA x : x.data[field] > 0)
        sorted == StableSort(positive)
        top == SubSeq(sorted, 1, IF Len(sorted) < TopN THEN Len(sorted) ELSE TopN)
    IN [n \in 1..Len(top) |-> [addr |-> top[n].addr, data |-> top[n].data]]

\* The code up to the loop: the choice of the list.
TopStart ==
    /\ pc = "start"
    /\ data # NoData
    /\ IF TopList(data).found
       THEN /\ pc' = "top"
            /\ top_addresses' = NoTop
       ELSE /\ pc' = "topped"
            /\ top_addresses' = [NoTop EXCEPT !.returned = "None"]
    /\ i' = 1
    /\ address_flows' = EmptyDict
    /\ tx_details' = <<>>
    /\ UNCHANGED <<inputVars, restVars, clusterVars, timelineVars, flow_returned, now,
                   first_flows, data, balanceVars, sizeVars>>

\* One iteration of "for tx in transactions": an item that is no dict is
\* passed over; get_transaction_details returns the record or None.
TopStep ==
    /\ pc = "top"
    /\ i <= Len(TopList(data).items)
    /\ LET tx == TopList(data).items[i]
       IN \E fetched \in BOOLEAN :
            /\ fetched => tx.type = "dict" /\ In("txid", tx)
            /\ tx_details' = Append(tx_details, fetched)
            /\ address_flows' =
                 IF fetched
                 THEN LET tx_detail == transactions[tx.fields["txid"].value]
                      IN TopFoldLegs(TopFoldLegs(address_flows, tx_detail.vin, "in"),
                                     tx_detail.vout, "out")
                 ELSE address_flows
    /\ i' = i + 1
    /\ UNCHANGED <<inputVars, restVars, pc, clusterVars, timelineVars, flow_returned, now,
                   first_flows, appVars>>

\* The code after the loop: the two ranked lists.
TopFinish ==
    /\ pc = "top"
    /\ i > Len(TopList(data).items)
    /\ top_addresses' =
         [returned |-> "value",
          top_senders |-> Rank(address_flows, "total_sent"),
          top_receivers |-> Rank(address_flows, "total_received"),
          total_addresses_analyzed |-> Len(address_flows.keys)]
    /\ pc' = "topped"
    /\ UNCHANGED <<inputVars, restVars, i, clusterVars, timelineVars, flowVars, data,
                   balanceVars, sizeVars>>

\* ------------------------- bubble_map_visualizer.py: the sizes of the nodes
\* In the flow maps of this section an amount is a whole number of BTC, and a
\* size is held as its thousandfold, so that total_flow / 1000 is exact.
Max(a, b) == IF a > b THEN a ELSE b

Min(a, b) == IF a < b THEN a ELSE b

\* An entry of a flow map with the given count and amounts.
FlowEntry(count, received, sent) ==
    [ZeroFlow EXCEPT !.transaction_count = count,
                     !.total_received = received,
                     !.total_sent = sent,
                     !.first_seen = IF count = 0 THEN None ELSE 1,
                     !.last_seen = IF count = 0 THEN None ELSE 2]

\* The entries of the flow maps in the model: counts around the sizes 15 / 3
\* and 15 / 4, total flows of 0, 500, 2000 and 3000 BTC.
FlowEntries ==
    {ZeroFlow} \cup
    { FlowEntry(count, flow[1], flow[2]) :
        count \in {3, 4, 5, 6},
        flow \in {<<0, 0>>, <<300, 200>>, <<1500, 500>>, <<0, 3000>>} }

\* The flow maps analyze_transaction_flow returns in the model: the main
\* address first, alone or with one other address.
FlowMaps(main) ==
    { DictSet(EmptyDict, main, e) : e \in FlowEntries } \cup
    { DictSet(DictSet(EmptyDict, main, e), "B", f) :
        e \in FlowEntries, f \in FlowEntries \ {ZeroFlow} }

NoBubbleData ==
    [returned |-> "no", addresses |-> <<>>, total_flows |-> <<>>,
     net_flows |-> <<>>, transaction_counts |-> <<>>, colors |-> <<>>,
     labels |-> <<>>, main_address |-> ""]

\* Variant: an address with a net flow of zero is green.
DataColor_ZeroPositive(addr, main_address, net_flow) ==
    IF addr = main_address THEN "blue"
    ELSE IF net_flow >= 0 THEN "green" ELSE "red"

\* create_bubble_map_data: "if addr == main_address ... elif net_flow > 0 ...
\* else ...".
DataColor(addr, main_address, net_flow) ==
    IF addr = main_address THEN "blue"
    ELSE IF net_flow > 0 THEN "green" ELSE "red"

\* The label of a node: the address (the addresses of the model are no longer
\* than 16 characters, so they are not shortened), the net and the total flow.
Label(addr, net_flow, total_flow) ==
    [short_addr |-> addr, net |-> net_flow, total |-> total_flow]

\* The colours of the two plots: '#1E3A8A' for the main address, else
\* rgba(34, 197, 94, a) for a positive net flow and rgba(239, 68, 68, a)
\* otherwise, a = 0.7 + min(1.0, |net_flow| / 100) * 0.3 in thousandths.
PlotColor(addr, main_address, net_flow) ==
    IF addr = main_address THEN [rgb |-> "#1E3A8A", alpha |-> 1000]
    ELSE IF net_flow > 0
         THEN [rgb |-> "34, 197, 94", alpha |-> 700 + Min(300, 3 * net_flow)]
         ELSE [rgb |-> "239, 68, 68", alpha |-> 700 + Min(300, 3 * Abs(net_flow))]

\* Variant: an address without any flow gets no node.
BubbleData_FlowingOnly(flows, main_address) ==
    LET addresses ==
            SelectSeq(flows.keys,
                      LAMBDA a : flows.val[a].total_received
                                 + flows.val[a].total_sent > 0)
        total_flow(addr) == flows.val[addr].total_received + flows.val[addr].total_sent
        net_flow(addr) == flows.val[addr].total_received - flows.val[addr].total_sent
    IN [returned |-> "value",
        addresses |-> addresses,
        total_flows |-> [n \in 1..Len(addresses) |-> total_flow(addresses[n])],
        net_flows |-> [n \in 1..Len(addresses) |-> net_flow(addresses[n])],
        transaction_counts |->
            [n \in 1..Len(addresses) |-> flows.val[addresses[n]].transaction_count],
        colors |-> [n \in 1..Len(addresses) |->
                      DataColor(addresses[n], main_address, net_flow(addresses[n]))],
        labels |-> [n \in 1..Len(addresses) |->
                      Label(addresses[n], net_flow(addresses[n]),
                            total_flow(addresses[n]))],
        main_address |-> main_address]

\* create_bubble_map_data(address_flows, main_address), for a map with entries.
BubbleData(flows, main_address) ==
    LET addresses == flows.keys
        total_flow(addr) == flows.val[addr].total_received + flows.val[addr].total_sent
        net_flow(addr) == flows.val[addr].total_received - flows.val[addr].total_sent
    IN [returned |-> "value",
        addresses |-> addresses,
        total_flows |-> [n \in 1..Len(addresses) |-> total_flow(addresses[n])],
        net_flows |-> [n \in 1..Len(addresses) |-> net_flow(addresses[n])],
        transaction_counts |->
            [n \in 1..Len(addresses) |-> flows.val[addresses[n]].transaction_count],
        colors |-> [n \in 1..Len(addresses) |->
                      DataColor(addresses[n], main_address, net_flow(addresses[n]))],
        labels |-> [n \in 1..Len(addresses) |->
                      Label(addresses[n], net_flow(addresses[n]),
                            total_flow(addresses[n]))],
        main_address |-> main_address]

\* Variant: the flow factor has no cap.
NodeSize_Uncapped(count, total_flow, per_tx) ==
    Max(15, count * per_tx) * (1000 + total_flow)

\* base_size = max(15, count * per_tx); flow_factor = min(2.0, total_flow /
\* 1000); size = base_size * (1 + flow_factor), in thousandths.
NodeSize(count, total_flow, per_tx) ==
    LET base_size == Max(15, count * per_tx)
        flow_factor == Min(2000, total_flow)
    IN base_size * (1000 + flow_factor)

\* test_bubble_map: "if address_flows: bubble_data =
\* visualizer.create_bubble_map_data(address_flows, address)" on the map
\* analyze_transaction_flow has returned.
TestBubbleData ==
    /\ pc = "flowed"
    /\ flow_returned = "value"
    /\ address_flows # EmptyDict
    /\ bubble_data' = BubbleData(address_flows, address)
    /\ pc' = "bubbled"
    /\ UNCHANGED <<backendVars, restVars, i, data, balanceVars, top_addresses,
                   bubble_sizes, node_size, colors, node_color>>

\* create_bubble_map_visualization: create_bubble_map_data, then the plots.
BubbleStart ==
    /\ pc = "start"
    /\ address_flows # EmptyDict
    /\ bubble_data' = BubbleData(address_flows, address)
    /\ bubble_sizes' = <<>>
    /\ node_size' = <<>>
    /\ colors' = <<>>
    /\ node_color' = <<>>
    /\ i' = 1
    /\ pc' = "bubble"
    /\ UNCHANGED <<backendVars, restVars, data, balanceVars, top_addresses>>

\* create_bubble_map_plot: one iteration of
\* "for i, count in enumerate(bubble_data['transaction_counts'])".
BubbleSizeStep ==
    /\ pc = "bubble"
    /\ i <= Len(bubble_data.transaction_counts)
    /\ bubble_sizes' =
         Append(bubble_sizes,
                NodeSize(bubble_data.transaction_counts[i],
                         bubble_data.total_flows[i], 3))
    /\ i' = i + 1
    /\ UNCHANGED <<backendVars, restVars, data, balanceVars, top_addresses, pc,
                   bubble_data, node_size, colors, node_color>>

\* create_bubble_map_plot after the sizes: the loop
\* "for i, addr in enumerate(bubble_data['addresses'])" that picks the colours;
\* the plot is made and create_flow_network_plot starts.
NetworkStart ==
    /\ pc = "bubble"
    /\ i > Len(bubble_data.transaction_counts)
    /\ colors' = [n \in 1..Len(bubble_data.addresses) |->
                    PlotColor(bubble_data.addresses[n], bubble_data.main_address,
                              bubble_data.net_flows[n])]
    /\ i' = 1
    /\ pc' = "network"
    /\ UNCHANGED <<backendVars, restVars, data, balanceVars, top_addresses, bubble_data,
                   bubble_sizes, node_size, node_color>>

\* create_flow_network_plot: one iteration of "for node in G.nodes()"; the
\* nodes are the keys of address_flows in their order.
NetworkSizeStep ==
    /\ pc = "network"
    /\ i <= Len(address_flows.keys)
    /\ LET node_data == address_flows.val[address_flows.keys[i]]
           total_flow == node_data.total_received + node_data.total_sent
           net_flow == node_data.total_received - node_data.total_sent
       IN /\ node_size' =
               Append(node_size,
                      NodeSize(node_data.transaction_count, total_flow, 4))
          /\ node_color' =
               Append(node_color,
                      PlotColor(address_flows.keys[i], address, net_flow))
    /\ i' = i + 1
    /\ UNCHANGED <<backendVars, restVars, data, balanceVars, top_addresses, pc,
                   bubble_data, bubble_sizes, colors>>

NetworkFinish ==
    /\ pc = "network"
    /\ i > Len(address_flows.keys)
    /\ pc' = "sized"
    /\ UNCHANGED <<backendVars, restVars, data, balanceVars, top_addresses, i, sizeVars>>

\* ------------------------------------------------------ create_network_data
\* Variant: the related addresses are taken in the order of cluster_analysis,
\* highest connection count first.
RelatedOfNetwork_ByCount(clustering) ==
    [n \in 1..Len(clustering.cluster_analysis) |->
        clustering.cluster_analysis[n].address]

\* The list create_network_data cuts: clustering_data['related_addresses'].
RelatedOfNetwork(clustering) == clustering.related_addresses

\* clustering_data['related_addresses'][:20]
NetworkLimit == 20

\* clustering_data['connection_details'].get(related_addr, 1)
ConnectionCount(clustering, related_addr) ==
    IF HasKey(clustering.connection_details, related_addr)
    THEN clustering.connection_details.val[related_addr]
    ELSE 1

\* create_network_data(address, clustering_data, transactions): the main
\* node, then a node and an edge for each of the first 20 related addresses.
NetworkData(main_address, clustering, txs) ==
    LET listed == RelatedOfNetwork(clustering)
        related == SubSeq(listed, 1, Min(NetworkLimit, Len(listed)))
        main_node == [id |-> main_address, type |-> "main",
                      transaction_count |-> Len(txs),
                      label |-> <<"Main", main_address>>]
        related_node(a) == [id |-> a, type |-> "related",
                            connection_count |-> ConnectionCount(clustering, a),
                            label |-> <<"Related", a>>]
        edge(a) == [source |-> main_address, target |-> a,
                    weight |-> ConnectionCount(clustering, a)]
    IN [returned |-> "value",
        main_address |-> main_address,
        nodes |-> <<main_node>> \o
                  [n \in 1..Len(related) |-> related_node(related[n])],
        edges |-> [n \in 1..Len(related) |-> edge(related[n])],
        graph_metrics |-> [total_nodes |-> Len(related) + 1,
                           total_edges |-> Len(related),
                           related_addresses_count |-> Len(related)]]

\* The names of the related addresses of the clustering results below.
RelatedNames ==
    <<"B", "C", "D", "E", "F", "G", "H", "I", "J", "K", "L", "M", "N", "O",
      "P", "Q", "R", "S", "T", "U", "V", "W", "X", "Y", "Z">>

\* n related addresses each pay the main address once, in the order of
\* RelatedNames; the one at position busy (if any) pays two more times.
RelatedTxs(main_address, n, busy) ==
    [k \in 1..n |-> Tx(TRUE, 1, <<Leg(RelatedNames[k], 1)>>,
                       <<Leg(main_address, 1)>>)]
    \o (IF busy = 0 THEN <<>>
        ELSE [k \in 1..2 |-> Tx(TRUE, 2, <<Leg(RelatedNames[busy], 1)>>,
                                 <<Leg(main_address, 1)>>)])

\* What analyze_address_clustering returns for RelatedTxs: the counts in the
\* order the addresses were first met, and list(related_addresses) in the
\* order the set gives, here the first-met order or its reverse.
RelatedClusterings(n, busy) ==
    LET conns == [keys |-> SubSeq(RelatedNames, 1, n),
                  val |-> [a \in { RelatedNames[k] : k \in 1..n } |->
                             IF busy # 0 /\ a = RelatedNames[busy] THEN 3 ELSE 1]]
        forward == SubSeq(RelatedNames, 1, n)
        reverse == [k \in 1..n |-> RelatedNames[n + 1 - k]]
    IN { [related_addresses |-> listed,
          connection_details |-> conns,
          cluster_analysis |-> ClusterAnalysis(conns)] :
         listed \in {forward, reverse} }

\* analyze_address: the call of create_network_data after the clustering.
CreateNetworkData(from, to) ==
    /\ pc = from
    /\ network_data' = NetworkData(address, clustering_data, transactions)
    /\ pc' = to
    /\ UNCHANGED <<backendVars, i, data, balanceVars, top_addresses, sizeVars,
                   plotVars, analysis_data, prompts, results>>

NetworkDataStart == CreateNetworkData("start", "netted")

\* ------------------------------------------------- analyze_address and main
\* What get_address_info returns for an address, and the statistics
\* calculate_address_stats derives from it; both are named here by the
\* address they belong to.
AddressInfo(a) == [address |-> a]

AddressStats(address_info) == [stats_of |-> address_info.address]

\* Variant: the data of the call before is kept.
FreshAnalysisData_Kept(old) == old

\* self.analysis_data = {}  # Reset analysis data
FreshAnalysisData(old) == EmptyDict

\* The lists get_address_transactions returns in a session: none, B pays A,
\* an unconfirmed payment, a confirmed record without block_time, and a
\* list with such a record behind a well-formed one.
MainBatches ==
    { <<>>,
      <<Tx(TRUE, 2, <<Leg("B", 2)>>, <<Leg("A", 2)>>)>>,
      <<Tx(FALSE, 0, <<Leg("A", 1)>>, <<Leg("B", 1)>>)>>,
      <<Tx(TRUE, 0, <<Leg("B", 2)>>, <<Leg("A", 2)>>)>>,
      <<Tx(TRUE, 2, <<Leg("B", 2)>>, <<Leg("A", 2)>>),
        Tx(TRUE, 0, <<Leg("A", 1)>>, <<Leg("C", 1)>>)>> }

\* An address entered, with what the API answers for it; "x" stands for a
\* text shorter than 25 characters.
MainRuns ==
    [address : Targets \cup {"x"}, info_ok : BOOLEAN,
     transactions : MainBatches]

\* not (len(address) < 25 or len(address) > 62)
IsValidFormat(a) == a \in Addresses

\* The address the loop of main reads next.
NextRun == prompts[Len(results) + 1]

NoExport == [address |-> NoAddr, json_file |-> "None", exported |-> EmptyDict]

\* main: "Invalid Bitcoin address format", and the loop continues.
MainInvalid ==
    /\ pc = "prompt"
    /\ Len(results) < Len(prompts)
    /\ ~IsValidFormat(NextRun.address)
    /\ results' = Append(results, [NoExport EXCEPT !.address = NextRun.address,
                                                   !.json_file = "invalid"])
    /\ UNCHANGED <<backendVars, pc, i, data, balanceVars, top_addresses,
                   sizeVars, plotVars, network_data, analysis_data, prompts>>

\* main calls analyze_address: the reset, get_address_info (return None when
\* it fails), get_address_transactions and the statistics.
MainAnalyze ==
    /\ pc = "prompt"
    /\ Len(results) < Len(prompts)
    /\ IsValidFormat(NextRun.address)
    /\ address' = NextRun.address
    /\ transactions' = NextRun.transactions
    /\ IF ~NextRun.info_ok
       THEN /\ analysis_data' = FreshAnalysisData(analysis_data)
            /\ results' = Append(results,
                                 [NoExport EXCEPT !.address = NextRun.address])
            /\ pc' = "prompt"
       ELSE /\ analysis_data' =
                 DictSet(DictSet(FreshAnalysisData(analysis_data),
                                 "address_stats",
                                 AddressStats(AddressInfo(NextRun.address))),
                         "address_info", AddressInfo(NextRun.address))
            /\ results' = results
            /\ pc' = IF NextRun.transactions = <<>> THEN "export" ELSE "start"
    /\ UNCHANGED <<clusterVars, timelineVars, flowVars, i, data, balanceVars,
                   top_addresses, sizeVars, plotVars, network_data, prompts>>

\* analyze_address: create_network_data follows the clustering, and
\* create_timeline_data follows it.
AnalyseNetwork == CreateNetworkData("clustered", "networked")

MainTimeline == TimelineBegin("networked")

\* analyze_address from "if transactions:" to the return, without the calls
\* modelled above: the keys of a list with transactions are assigned (nothing
\* reads them before the export), then export_analysis_to_json adds the
\* metadata and writes the file, or fails to and returns None.
AnalysisExport(from, with_transactions) ==
    /\ pc = from
    /\ LET set(d, key, value, present) ==
               IF present THEN DictSet(d, key, value) ELSE d
           recent == set(analysis_data, "recent_transactions",
                         processed_transactions, with_transactions)
           all == set(recent, "all_transactions", transactions,
                      with_transactions)
           clustering == set(all, "clustering_analysis", clustering_data,
                             with_transactions)
           network == set(clustering, "network_graph", network_data,
                          with_transactions /\ network_data.returned = "value")
           timeline == set(network, "transaction_timeline", timeline_data,
                           with_transactions /\ timeline_data.returned = "value")
           exported == DictSet(timeline, "metadata",
                               [address |-> address, analysis_timestamp |-> now])
       IN /\ analysis_data' = exported
          /\ \E written \in BOOLEAN :
               results' =
                  Append(results,
                         IF written
                         THEN [address |-> address, json_file |-> "file",
                               exported |-> exported]
                         ELSE [NoExport EXCEPT !.address = address])
    /\ pc' = "prompt"
    /\ UNCHANGED <<backendVars, i, data, balanceVars, top_addresses, sizeVars,
                   plotVars, network_data, prompts>>

MainExport == AnalysisExport("timelined", TRUE)

MainExportEmpty == AnalysisExport("export", FALSE)

\* An exception of process_transactions is caught neither in analyze_address
\* nor in main: the program ends.
MainCrash ==
    /\ pc = "raised"
    /\ pc' = "crashed"
    /\ UNCHANGED <<backendVars, i, appVars>>

\* The user enters 'quit'.
MainQuit ==
    /\ pc = "prompt"
    /\ Len(results) = Len(prompts)
    /\ pc' = "quit"
    /\ UNCHANGED <<backendVars, i, appVars>>

\* ------------------------------------------------------------ specification
\* No operation has started.
Idle ==
    /\ pc = "start"
    /\ i = 1
    /\ related_addresses = {}
    /\ address_connections = EmptyDict
    /\ clustering_data = NoClustering
    /\ processed_transactions = <<>>
    /\ timeline_data = NoTimeline
    /\ confirmed_txs = <<>>
    /\ total_received = 0
    /\ total_sent = 0
    /\ address_flows = EmptyDict
    /\ flow_returned = "no"
    /\ tx_details = <<>>
    /\ now = 3
    /\ first_flows = EmptyDict

\* No function of app.py has started; no JSON file is read.
IdleApp ==
    /\ dates = <<>>
    /\ balances = <<>>
    /\ cumulative_balance = 0
    /\ sorted_entries = <<>>
    /\ balance_plot = "no"
    /\ top_addresses = NoTop
    /\ bubble_data = NoBubbleData
    /\ bubble_sizes = <<>>
    /\ node_size = <<>>
    /\ colors = <<>>
    /\ node_color = <<>>
    /\ timeline_list = <<>>
    /\ amounts = <<>>
    /\ tx_types = <<>>
    /\ timeline_plot = "no"
    /\ network_data = NoNetwork
    /\ analysis_data = EmptyDict
    /\ prompts = <<>>
    /\ results = <<>>

Init ==
    /\ address \in Targets
    /\ transactions \in TxLists
    /\ Idle
    /\ data = NoData
    /\ IdleApp

NextCluster == ClusterStart \/ ClusterStep \/ ClusterFinish

SpecCluster == Init /\ [][NextCluster]_vars

NextTimeline ==
    \/ ProcessStart \/ ProcessStep \/ ProcessFinish
    \/ TimelineStart \/ TimelineStep \/ TimelineFinish

NextFlow ==
    \/ FlowStart \/ FlowStep \/ FlowFinish
    \/ RerunStart \/ RerunStep \/ RerunFinish

Next == NextTimeline \/ NextFlow \/ TestBubbleData

Spec == Init /\ [][Next]_vars

\* analyze_address_clustering has returned for up to MaxRelated related
\* addresses and create_network_data is called with its result.
InitNetwork ==
    /\ address = "A"
    /\ \E n \in 0..MaxRelated : \E busy \in 0..n :
         /\ transactions = RelatedTxs(address, n, busy)
         /\ clustering_data \in RelatedClusterings(n, busy)
    /\ pc = "start"
    /\ i = 1
    /\ related_addresses = {}
    /\ address_connections = EmptyDict
    /\ processed_transactions = <<>>
    /\ timeline_data = NoTimeline
    /\ confirmed_txs = <<>>
    /\ total_received = 0
    /\ total_sent = 0
    /\ address_flows = EmptyDict
    /\ flow_returned = "no"
    /\ tx_details = <<>>
    /\ now = 3
    /\ first_flows = EmptyDict
    /\ data = NoData
    /\ IdleApp

NextNetwork == NetworkDataStart

SpecNetwork == InitNetwork /\ [][NextNetwork]_vars

\* main waits for the first of the addresses the user will enter.
InitMain ==
    /\ address = NoAddr
    /\ transactions = <<>>
    /\ pc = "prompt"
    /\ i = 1
    /\ related_addresses = {}
    /\ address_connections = EmptyDict
    /\ clustering_data = NoClustering
    /\ processed_transactions = <<>>
    /\ timeline_data = NoTimeline
    /\ confirmed_txs = <<>>
    /\ total_received = 0
    /\ total_sent = 0
    /\ address_flows = EmptyDict
    /\ flow_returned = "no"
    /\ tx_details = <<>>
    /\ now = 3
    /\ first_flows = EmptyDict
    /\ data = NoData
    /\ dates = <<>>
    /\ balances = <<>>
    /\ cumulative_balance = 0
    /\ sorted_entries = <<>>
    /\ balance_plot = "no"
    /\ top_addresses = NoTop
    /\ bubble_data = NoBubbleData
    /\ bubble_sizes = <<>>
    /\ node_size = <<>>
    /\ colors = <<>>
    /\ node_color = <<>>
    /\ timeline_list = <<>>
    /\ amounts = <<>>
    /\ tx_types = <<>>
    /\ timeline_plot = "no"
    /\ network_data = NoNetwork
    /\ analysis_data = EmptyDict
    /\ prompts \in UNION { [1..n -> MainRuns] : n \in 1..MaxRuns }
    /\ results = <<>>

NextMain ==
    \/ MainInvalid \/ MainAnalyze
    \/ ProcessStart \/ ProcessStep \/ ProcessFinish
    \/ AnalyseCluster \/ ClusterStep \/ ClusterFinish
    \/ AnalyseNetwork
    \/ MainTimeline \/ TimelineStep \/ TimelineFinish
    \/ MainExport \/ MainExportEmpty
    \/ MainCrash \/ MainQuit

SpecMain == InitMain /\ [][NextMain]_vars

\* A document is loaded and create_balance_over_time_plot is called on it.
InitBalance ==
    /\ address = "A"
    /\ transactions = <<>>
    /\ Idle
    /\ \E entries \in EntryLists : data \in Documents(entries)
    /\ IdleApp

NextBalance == BalanceStart \/ BalanceStep \/ BalanceFinish

SpecBalance == InitBalance /\ [][NextBalance]_vars

\* Either plot function is called on the document.
NextPlot ==
    \/ NextBalance
    \/ TimelinePlotStart \/ TimelinePlotStep \/ TimelinePlotFinish

SpecPlot == InitBalance /\ [][NextPlot]_vars

\* A document is loaded and analyze_top_addresses is called on it; the
\* detail record of the k-th txid is transactions[k].
InitTop ==
    /\ address = "A"
    /\ transactions \in TopTxLists
    /\ Idle
    /\ data \in TopDocuments(Len(transactions))
    /\ IdleApp

NextTop == TopStart \/ TopStep \/ TopFinish

SpecTop == InitTop /\ [][NextTop]_vars

\* analyze_transaction_flow has returned a flow map and
\* create_bubble_map_visualization goes on with it.
InitSize ==
    /\ address = "A"
    /\ transactions = <<>>
    /\ pc = "start"
    /\ i = 1
    /\ related_addresses = {}
    /\ address_connections = EmptyDict
    /\ clustering_data = NoClustering
    /\ processed_transactions = <<>>
    /\ timeline_data = NoTimeline
    /\ confirmed_txs = <<>>
    /\ total_received = 0
    /\ total_sent = 0
    /\ address_flows \in FlowMaps(address)
    /\ flow_returned = "value"
    /\ tx_details = <<>>
    /\ now = 3
    /\ first_flows = EmptyDict
    /\ data = NoData
    /\ IdleApp

NextSize ==
    \/ BubbleStart \/ BubbleSizeStep \/ NetworkStart
    \/ NetworkSizeStep \/ NetworkFinish

SpecSize == InitSize /\ [][NextSize]_vars

\* analyze_address, steps 4 and 5, on lists longer than the limit of
\* process_transactions.
InitAnalysis ==
    /\ address \in Targets
    /\ transactions \in AnalysisTxLists
    /\ Idle
    /\ data = NoData
    /\ IdleApp

NextAnalysis ==
    \/ ProcessStart \/ ProcessStep \/ ProcessFinish
    \/ AnalyseCluster \/ ClusterStep \/ ClusterFinish
    \/ AnalyseTimeline \/ TimelineStep \/ TimelineFinish

SpecAnalysis == InitAnalysis /\ [][NextAnalysis]_vars

\* ------------------------------------------------------------------ claims
\* Number of legs (inputs and outputs) of tx that carry the address a.
LegCount(tx, a) ==
    Cardinality({ n \in 1..Len(tx.vin) : tx.vin[n].addr = a }) +
    Cardinality({ n \in 1..Len(tx.vout) : tx.vout[n].addr = a })

\* The transactions among the first n that have a leg of a and a leg of b.
SharedTxs(a, b, n) ==
    { k \in 1..n : LegCount(transactions[k], a) > 0
                   /\ LegCount(transactions[k], b) > 0 }

Clustering == pc \in {"cluster", "clustered"}

\* C1: once the clustering loop has handled the first i-1 transactions, every
\* other address X has a connection count equal to the number of those
\* transactions that contain both the target and X (no entry when there is
\* none), however many legs X has in a transaction; the map returned is that
\* map.
C1_ConnectionCount ==
    Clustering =>
        /\ \A X \in Addresses \ {address} :
             LET shared == Cardinality(SharedTxs(address, X, i - 1))
             IN IF shared = 0
                THEN ~HasKey(address_connections, X)
                ELSE /\ HasKey(address_connections, X)
                     /\ address_connections.val[X] = shared
        /\ pc = "clustered" =>
             clustering_data.connection_details = address_connections

\* C1 witness: the clustering is complete, some address with several legs in
\* one transaction of the target has count 2 or more, and some transaction
\* does not contain the target.
C1_Witness ==
    /\ pc = "clustered"
    /\ \E X \in Addresses \ {address} :
         /\ HasKey(address_connections, X)
         /\ address_connections.val[X] >= 2
         /\ \E k \in 1..Len(transactions) :
              /\ LegCount(transactions[k], X) >= 2
              /\ LegCount(transactions[k], address) >= 1
    /\ \E k \in 1..Len(transactions) : LegCount(transactions[k], address) = 0

\* C2: at every step of the clustering loop the connection map has no entry
\* for the target, every entry has count >= 1, and the related-address set
\* is the key set of the map; the list returned has the same elements as
\* the keys of the map returned.
C2_NoSelfEdgeNoZero ==
    Clustering =>
        /\ ~HasKey(address_connections, address)
        /\ \A X \in KeySet(address_connections) :
             address_connections.val[X] >= 1
        /\ related_addresses = KeySet(address_connections)
        /\ pc = "clustered" =>
             { clustering_data.related_addresses[n] :
                 n \in 1..Len(clustering_data.related_addresses) }
               = KeySet(clustering_data.connection_details)

\* C2 witness: in the middle of the loop, after a transaction with the target
\* and two other addresses.
C2_Witness ==
    /\ pc = "cluster"
    /\ i > 1
    /\ i <= Len(transactions)
    /\ Cardinality(related_addresses) >= 2
    /\ \E k \in 1..(i - 1) : LegCount(transactions[k], address) >= 2

\* The sum of the values of the first n legs that carry the address a.
RECURSIVE LegSum(_, _, _)
LegSum(legs, a, n) ==
    IF n = 0 THEN 0
    ELSE LegSum(legs, a, n - 1) + (IF legs[n].addr = a THEN legs[n].value ELSE 0)

\* Over the first n transactions whose detail record was fetched: the value
\* of the input legs of a, of its output legs, and the number of its legs.
RECURSIVE FetchedSent(_, _)
FetchedSent(a, n) ==
    IF n = 0 THEN 0
    ELSE FetchedSent(a, n - 1) +
         (IF tx_details[n]
          THEN LegSum(transactions[n].vin, a, Len(transactions[n].vin)) ELSE 0)

RECURSIVE FetchedReceived(_, _)
FetchedReceived(a, n) ==
    IF n = 0 THEN 0
    ELSE FetchedReceived(a, n - 1) +
         (IF tx_details[n]
          THEN LegSum(transactions[n].vout, a, Len(transactions[n].vout)) ELSE 0)

RECURSIVE FetchedLegs(_, _)
FetchedLegs(a, n) ==
    IF n = 0 THEN 0
    ELSE FetchedLegs(a, n - 1) +
         (IF tx_details[n] THEN LegCount(transactions[n], a) ELSE 0)

\* address_flows is the map of a call in its loop or of a call that has
\* returned it.
FlowMap ==
    \/ pc \in {"flow", "reflow"}
    \/ pc \in {"flowed", "done"} /\ flow_returned = "value"

AllFetched == \A k \in 1..Len(tx_details) : tx_details[k]

\* C3: while and after analyze_transaction_flow folds the detail records, every
\* address of the map has total_sent equal to the value of its input legs,
\* total_received equal to the value of its output legs and transaction_count
\* equal to the number of its legs, over the records folded so far; only
\* addresses are keys, and an address outside the map has no leg.
C3_FlowTotals ==
    FlowMap =>
        /\ KeySet(address_flows) \subseteq Addresses
        /\ \A a \in Addresses :
             IF HasKey(address_flows, a)
             THEN /\ address_flows.val[a].total_sent = FetchedSent(a, i - 1)
                  /\ address_flows.val[a].total_received
                       = FetchedReceived(a, i - 1)
                  /\ address_flows.val[a].transaction_count
                       = FetchedLegs(a, i - 1)
             ELSE FetchedLegs(a, i - 1) = 0

\* C3 witness: a map is returned in which one address has input legs worth 3
\* or more and an output leg, and a leg without address was folded.
C3_Witness ==
    /\ pc = "flowed"
    /\ flow_returned = "value"
    /\ \E a \in KeySet(address_flows) :
         /\ address_flows.val[a].total_sent >= 3
         /\ address_flows.val[a].total_received >= 1
    /\ \E k \in 1..Len(transactions) :
         tx_details[k] /\ LegCount(transactions[k], NoAddr) > 0

RECURSIVE NetSum(_, _)
NetSum(points, n) ==
    IF n = 0 THEN 0 ELSE NetSum(points, n - 1) + points[n].net_amount_btc

TimelineNet == NetSum(timeline_data.transactions, Len(timeline_data.transactions))

FlowNet ==
    address_flows.val[address].total_received
    - address_flows.val[address].total_sent

BothReturned ==
    /\ pc = "flowed"
    /\ flow_returned = "value"
    /\ timeline_data.returned = "value"

C5_IdenticalRerun ==
    (pc = "done" /\ flow_returned = "value") => address_flows = first_flows

\* C6: a flow map in the making or returned has an entry for the target, and
\* the entry is the zero entry when no folded detail record has a leg of the
\* target (none was fetched, or none mentions it).
C6_TargetPresent ==
    FlowMap =>
        /\ HasKey(address_flows, address)
        /\ FetchedLegs(address, i - 1) = 0
             => address_flows.val[address] = ZeroFlow

\* C6 witness: a map is returned although every detail fetch failed, for a
\* list with a transaction of the target.
C6_Witness ==
    /\ pc = "flowed"
    /\ flow_returned = "value"
    /\ Len(transactions) >= 2
    /\ \A k \in 1..Len(tx_details) : ~tx_details[k]
    /\ \E k \in 1..Len(transactions) : LegCount(transactions[k], address) > 0

\* C7: at every step of the fold, an entry with first_seen and last_seen set
\* has first_seen <= last_seen, and an entry with transaction_count >= 1 has
\* both set.
C7_FirstBeforeLast ==
    FlowMap =>
        \A a \in KeySet(address_flows) :
           LET f == address_flows.val[a] IN
           /\ (f.first_seen # None /\ f.last_seen # None)
                => f.first_seen <= f.last_seen
           /\ f.transaction_count >= 1
                => (f.first_seen # None /\ f.last_seen # None)

\* C7 witness: in the loop, an address was seen at a later block time first
\* and at an earlier one after it, and an address was last seen at the
\* clock's time.
C7_Witness ==
    /\ pc = "flow"
    /\ \E k, l \in 1..(i - 1) :
         /\ k < l
         /\ tx_details[k] /\ tx_details[l]
         /\ transactions[k].block_time = 2
         /\ transactions[l].block_time = 1
         /\ \E a \in Addresses :
              LegCount(transactions[k], a) > 0 /\ LegCount(transactions[l], a) > 0
    /\ \E a \in KeySet(address_flows) :
         address_flows.val[a].first_seen \in {1, 2}
         /\ address_flows.val[a].last_seen >= 3

\* C8: folding one more transaction removes no address from the map and
\* decreases no address's transaction_count, total_received or total_sent.
C8_FoldMonotone ==
    [][ (pc \in {"flow", "reflow"} /\ pc' = pc) =>
          \A a \in KeySet(address_flows) :
             /\ HasKey(address_flows', a)
             /\ address_flows'.val[a].transaction_count
                  >= address_flows.val[a].transaction_count
             /\ address_flows'.val[a].total_received
                  >= address_flows.val[a].total_received
             /\ address_flows'.val[a].total_sent
                  >= address_flows.val[a].total_sent ]_vars

\* C8 witness: in the loop, after two folded transactions, an address with
\* three or more legs counted and a third transaction to come.
C8_Witness ==
    /\ pc = "flow"
    /\ i = 3
    /\ i <= Len(transactions)
    /\ tx_details[1] /\ tx_details[2]
    /\ \E a \in KeySet(address_flows) :
         /\ address_flows.val[a].transaction_count >= 3
         /\ address_flows.val[a].total_sent >= 2

RefNet(tx, a) ==
    LegSum(tx.vout, a, Len(tx.vout)) - LegSum(tx.vin, a, Len(tx.vin))

Points == timeline_data.transactions

\* C9: every timeline point belongs to a confirmed transaction and has as net
\* amount the value of that transaction's output legs of the target minus the
\* value of its input legs of the target; process_transactions gives every
\* transaction that same net amount; a returned timeline has a point for
\* every confirmed transaction.
C9_NetAmount ==
    /\ \A n \in 1..Len(Points) :
         /\ transactions[Points[n].txid].confirmed
         /\ Points[n].net_amount_satoshis
              = RefNet(transactions[Points[n].txid], address)
    /\ \A n \in 1..Len(processed_transactions) :
         processed_transactions[n].net_amount_satoshis
           = RefNet(transactions[processed_transactions[n].txid], address)
    /\ timeline_data.returned = "value" =>
         \A k \in 1..Len(transactions) :
            transactions[k].confirmed =>
               \E n \in 1..Len(Points) : Points[n].txid = k

\* C9 witness: the timeline is returned with a point of negative and a point
\* of positive net amount, for transactions that have legs of other addresses.
C9_Witness ==
    /\ timeline_data.returned = "value"
    /\ pc = "timelined"
    /\ \E m, n \in 1..Len(Points) :
         /\ Points[m].net_amount_satoshis < 0
         /\ Points[n].net_amount_satoshis > 0
         /\ \E a \in Addresses \ {address} :
              LegCount(transactions[Points[m].txid], a) > 0
    /\ Len(processed_transactions) = Len(transactions)

\* C10: the points returned by create_timeline_data are in ascending order of
\* timestamp, and points of equal timestamp are in the order of the input
\* list (the txid of a point is its position in the input).
C10_TimelineSorted ==
    timeline_data.returned = "value" =>
        \A m, n \in 1..Len(Points) :
           m < n =>
              /\ Points[m].timestamp <= Points[n].timestamp
              /\ Points[m].timestamp = Points[n].timestamp
                   => Points[m].txid < Points[n].txid

\* C10 witness: three points are returned, two of them with equal timestamp,
\* for an input whose first transaction is later than its second.
C10_Witness ==
    /\ timeline_data.returned = "value"
    /\ Len(Points) = 3
    /\ \E m \in 1..2 : Points[m].timestamp = Points[m + 1].timestamp
    /\ transactions[1].block_time > transactions[2].block_time

\* The sum of the positive net amounts of the first n points, and the sum of
\* the net amounts, sign dropped, of the others.
RECURSIVE PositiveNetSum(_, _)
PositiveNetSum(points, n) ==
    IF n = 0 THEN 0
    ELSE PositiveNetSum(points, n - 1) +
         (IF points[n].net_amount_btc > 0 THEN points[n].net_amount_btc ELSE 0)

RECURSIVE OtherNetSum(_, _)
OtherNetSum(points, n) ==
    IF n = 0 THEN 0
    ELSE OtherNetSum(points, n - 1) +
         (IF points[n].net_amount_btc > 0 THEN 0
          ELSE 0 - points[n].net_amount_btc)

\* create_timeline_data has returned a timeline with its summary statistics.
Summarised ==
    /\ pc \in {"timelined", "flow", "flowed", "reflow", "done"}
    /\ timeline_data.returned = "value"
    /\ transactions # <<>>

Summary == timeline_data.summary_stats

\* C12: in the summary of a returned timeline total_received_btc is the sum of
\* the net amounts of the points with positive net amount and total_sent_btc
\* is the sum of the absolute net amounts of all other points, so that
\* received minus sent is the sum of the net amounts of the points.
C12_SummaryTotals ==
    Summarised =>
        /\ Summary.total_received_btc = PositiveNetSum(Points, Len(Points))
        /\ Summary.total_sent_btc = OtherNetSum(Points, Len(Points))
        /\ Summary.total_received_btc - Summary.total_sent_btc
             = NetSum(Points, Len(Points))

\* C12 witness: a summary over three points, of positive, negative and
\* positive net amount, with both totals above zero.
C12_Witness ==
    /\ Summarised
    /\ Len(Points) = 3
    /\ \E k, m, n \in 1..3 :
         /\ k # n
         /\ Points[k].net_amount_btc > 0
         /\ Points[m].net_amount_btc < 0
         /\ Points[n].net_amount_btc > 0
    /\ Summary.total_received_btc = 3
    /\ Summary.total_sent_btc = 2

\* The year and month in which a time falls.
YearMonth(t) == <<1970 + (t \div 24), ((t \div 2) % 12) + 1>>

Monthly == Summary.monthly_activity

\* The points that fall in the month k.
PointsOfMonth(k) == { n \in 1..Len(Points) : YearMonth(Points[n].timestamp) = k }

\* The sum of a field over the buckets of the first n months.
RECURSIVE MonthlySum(_, _, _)
MonthlySum(monthly, field, n) ==
    IF n = 0 THEN 0
    ELSE MonthlySum(monthly, field, n - 1) + monthly.val[monthly.keys[n]][field]

\* C14: in the monthly activity of a returned timeline every point is counted
\* in exactly one bucket, the one keyed by the year and month of its
\* timestamp; the bucket counts sum to the number of points; every bucket has
\* net_flow = total_received - total_sent; and the buckets' total_received
\* and total_sent sum to the summary's total_received_btc and total_sent_btc.
C14_MonthlyBuckets ==
    Summarised =>
        /\ \A m, n \in 1..Len(Monthly.keys) :
              m # n => Monthly.keys[m] # Monthly.keys[n]
        /\ KeySet(Monthly) = { YearMonth(Points[n].timestamp) : n \in 1..Len(Points) }
        /\ \A k \in KeySet(Monthly) :
              /\ Monthly.val[k].transaction_count = Cardinality(PointsOfMonth(k))
              /\ Monthly.val[k].net_flow
                   = Monthly.val[k].total_received - Monthly.val[k].total_sent
        /\ MonthlySum(Monthly, "transaction_count", Len(Monthly.keys)) = Len(Points)
        /\ MonthlySum(Monthly, "total_received", Len(Monthly.keys))
             = Summary.total_received_btc
        /\ MonthlySum(Monthly, "total_sent", Len(Monthly.keys))
             = Summary.total_sent_btc

\* C14 witness: three points in two months, a month of two points, a month
\* with an amount received and a month with an amount sent.
C14_Witness ==
    /\ Summarised
    /\ Len(Points) = 3
    /\ Len(Monthly.keys) = 2
    /\ \E k \in KeySet(Monthly) : Monthly.val[k].transaction_count = 2
    /\ \E k \in KeySet(Monthly) : Monthly.val[k].total_received > 0
    /\ \E k \in KeySet(Monthly) : Monthly.val[k].total_sent > 0

\* The sum of amount_btc over the points among the first n of the given type.
RECURSIVE TypeSum(_, _, _)
TypeSum(points, type, n) ==
    IF n = 0 THEN 0
    ELSE TypeSum(points, type, n - 1) +
         (IF points[n].type = type THEN points[n].amount_btc ELSE 0)

\* C15: a transaction is classified Received exactly when its net amount is
\* strictly above zero and Sent otherwise (also at zero), in the records of
\* process_transactions and in the points of create_timeline_data alike; the
\* summary totals and the monthly buckets put every point on the side of its
\* type, a point of net amount zero on the Sent side.
C15_Classification ==
    /\ \A n \in 1..Len(processed_transactions) :
         processed_transactions[n].transaction_type =
            (IF RefNet(transactions[n], address) > 0 THEN "Received" ELSE "Sent")
    /\ \A n \in 1..Len(timeline_data.transactions) :
         LET point == timeline_data.transactions[n]
         IN /\ point.type =
                 (IF RefNet(transactions[point.txid], address) > 0
                  THEN "Received" ELSE "Sent")
            /\ point.txid <= Len(processed_transactions) =>
                 point.type = processed_transactions[point.txid].transaction_type
    /\ Summarised =>
         /\ Summary.total_received_btc = TypeSum(Points, "Received", Len(Points))
         /\ Summary.total_sent_btc = TypeSum(Points, "Sent", Len(Points))
         /\ \A k \in KeySet(Monthly) :
              LET inMonth == SelectSeq(Points, LAMBDA x : YearMonth(x.timestamp) = k)
              IN /\ Monthly.val[k].total_received
                      = TypeSum(inMonth, "Received", Len(inMonth))
                 /\ Monthly.val[k].total_sent
                      = TypeSum(inMonth, "Sent", Len(inMonth))

\* C15 witness: a returned timeline with a point of net amount zero, a point
\* of positive and a point of negative net amount, all three also processed
\* by process_transactions.
C15_Witness ==
    /\ Summarised
    /\ Len(processed_transactions) = 3
    /\ \E k, m, n \in 1..Len(Points) :
         /\ Points[k].net_amount_btc = 0 /\ Points[k].type = "Sent"
         /\ Points[m].net_amount_btc > 0 /\ Points[m].type = "Received"
         /\ Points[n].net_amount_btc < 0 /\ Points[n].type = "Sent"

\* analyze_address has run process_transactions, the clustering and
\* create_timeline_data on the same list.
Analysed ==
    /\ pc = "timelined"
    /\ timeline_data.returned = "value"
    /\ clustering_data # NoClustering

\* The points of transaction k, and its records in the output of
\* process_transactions.
PointsOf(k) == { n \in 1..Len(Points) : Points[n].txid = k }

RecordsOf(k) ==
    { n \in 1..Len(processed_transactions) : processed_transactions[n].txid = k }

\* The parts of C13 on the timeline and on the clustering counts.
TimelineOfConfirmed ==
    /\ \A k \in 1..Len(transactions) :
         Cardinality(PointsOf(k)) = (IF transactions[k].confirmed THEN 1 ELSE 0)
    /\ Summary.total_confirmed_transactions = Len(Points)
    /\ \A X \in Addresses \ {address} :
         LET shared == Cardinality(SharedTxs(address, X, Len(transactions)))
         IN IF shared = 0
            THEN ~HasKey(clustering_data.connection_details, X)
            ELSE /\ HasKey(clustering_data.connection_details, X)
                 /\ clustering_data.connection_details.val[X] = shared

\* C13: create_timeline_data emits exactly one point per confirmed transaction
\* and none for an unconfirmed one, total_confirmed_transactions is the number
\* of points, and every unconfirmed transaction is counted by the clustering
\* and has a record in the output of process_transactions for the same list.
C13_UnconfirmedElsewhere ==
    Analysed =>
        /\ TimelineOfConfirmed
        /\ \A k \in 1..Len(transactions) :
             ~transactions[k].confirmed =>
                \E n \in RecordsOf(k) : ~processed_transactions[n].confirmed

\* C13, amended: as C13, the records of process_transactions being those of
\* the first 10 transactions of the list, confirmed or not.
C13_UnconfirmedInFirstTen ==
    Analysed =>
        /\ TimelineOfConfirmed
        /\ \A k \in 1..Len(transactions) :
             Cardinality(RecordsOf(k)) = (IF k <= 10 THEN 1 ELSE 0)
        /\ \A n \in 1..Len(processed_transactions) :
             processed_transactions[n].confirmed
               = transactions[processed_transactions[n].txid].confirmed

\* C13 witness: a list of 11 transactions, the second and the last of them
\* unconfirmed, with points for the 9 confirmed ones, 10 records of
\* process_transactions and a connection count of 11.
C13_Witness ==
    /\ Analysed
    /\ Len(transactions) = 11
    /\ ~transactions[2].confirmed
    /\ ~transactions[11].confirmed
    /\ Len(Points) = 9
    /\ Len(processed_transactions) = 10
    /\ \E X \in Addresses : /\ HasKey(clustering_data.connection_details, X)
                            /\ clustering_data.connection_details.val[X] = 11

ClusterList == clustering_data.cluster_analysis

\* C16: in the cluster analysis returned every related address has one entry,
\* with its connection count, and the likelihood of an entry is High when the
\* count is above 5, Medium when it is 3, 4 or 5 and Low when it is 1 or 2.
C16_LikelihoodThresholds ==
    clustering_data # NoClustering =>
        /\ \A X \in KeySet(clustering_data.connection_details) :
             Cardinality({ n \in 1..Len(ClusterList) : ClusterList[n].address = X }) = 1
        /\ \A n \in 1..Len(ClusterList) :
             LET count == ClusterList[n].connection_count
             IN /\ HasKey(clustering_data.connection_details, ClusterList[n].address)
                /\ count = clustering_data.connection_details.val[ClusterList[n].address]
                /\ count >= 1
                /\ count > 5 => ClusterList[n].likelihood = "High"
                /\ count \in 3..5 => ClusterList[n].likelihood = "Medium"
                /\ count \in 1..2 => ClusterList[n].likelihood = "Low"

\* C16 witness: an address with connection count 5 and likelihood Medium.
C16_Witness ==
    /\ clustering_data # NoClustering
    /\ \E n \in 1..Len(ClusterList) :
         /\ ClusterList[n].connection_count = 5
         /\ ClusterList[n].likelihood = "Medium"

\* The position of an address in the lexical order of the addresses.
LexRank(a) == CHOOSE n \in 1..Len(TopAddressOrder) : TopAddressOrder[n] = a

\* C17: the cluster analysis returned is in descending order of connection
\* count, and entries of equal count are in ascending lexical order of their
\* address.
C17_CountThenLexical ==
    pc = "clustered" =>
        \A m, n \in 1..Len(ClusterList) :
           m < n =>
              /\ ClusterList[m].connection_count >= ClusterList[n].connection_count
              /\ ClusterList[m].connection_count = ClusterList[n].connection_count
                   => LexRank(ClusterList[m].address) < LexRank(ClusterList[n].address)

\* The entries of the list the loaded document holds.
Entries ==
    TimelineList(data, <<"transaction_timeline", "recent_transactions">>).items

TimeFields == <<"date", "formatted_date", "timestamp">>

\* The field value is a timestamp: an epoch number, or an ISO text with or
\* without the UTC marker.
IsTimestamp(v) ==
    \/ v.type = "int"
    \/ v.type = "str" /\ Len(v.text.date) = 3 /\ v.text.tail \in {"", "Z", "+00:00"}

\* The time a timestamp stands for, in ticks of the model's clock.
TimeOf(v) ==
    IF v.type = "int" THEN v.value
    ELSE ((v.text.date[1] - 1970) * 24) + ((v.text.date[2] - 1) * 2) + v.text.date[3]

\* The entry has a resolvable timestamp: it is a dict and one of its fields
\* date, formatted_date, timestamp is a timestamp.
Resolvable(e) ==
    /\ e.type = "dict"
    /\ \E k \in 1..3 : In(TimeFields[k], e) /\ IsTimestamp(e.fields[TimeFields[k]])

\* The time of a resolvable entry: that of the first field that is a timestamp.
EntryTime(e) ==
    LET k == CHOOSE k \in 1..3 :
               /\ In(TimeFields[k], e) /\ IsTimestamp(e.fields[TimeFields[k]])
               /\ \A j \in 1..(k - 1) :
                    ~(In(TimeFields[j], e) /\ IsTimestamp(e.fields[TimeFields[j]]))
    IN TimeOf(e.fields[TimeFields[k]])

NetOf(e) == IF In("net_amount_btc", e) THEN e.fields["net_amount_btc"].value ELSE 0

\* The sum of the net amounts of the entries at the first n positions of order.
RECURSIVE PrefixNet(_, _, _)
PrefixNet(entries, order, n) ==
    IF n = 0 THEN 0
    ELSE PrefixNet(entries, order, n - 1) + NetOf(entries[order[n]])

\* C11: when create_balance_over_time_plot is done with a document that holds
\* a list of entries, the balances are the prefix sums of the net amounts of
\* exactly the entries with a resolvable timestamp, taken in an ascending
\* order of their times.
C11_BalancePrefixSums ==
    (pc = "plotted" /\ balance_plot # "no"
       /\ TimelineList(data, <<"transaction_timeline", "recent_transactions">>).found)
    =>
    LET resolvable == { n \in 1..Len(Entries) : Resolvable(Entries[n]) }
    IN \E order \in IterationOrders(resolvable) :
          /\ \A j, k \in 1..Len(order) :
                j < k => EntryTime(Entries[order[j]]) <= EntryTime(Entries[order[k]])
          /\ Len(balances) = Len(order)
          /\ \A k \in 1..Len(order) : balances[k] = PrefixNet(Entries, order, k)

\* analyze_top_addresses has returned its two lists.
Topped == pc = "topped" /\ top_addresses.returned = "value"

\* The addresses of the map whose field is above zero.
PositiveKeys(field) ==
    { a \in KeySet(address_flows) : address_flows.val[a][field] > 0 }

\* The list is at most 10 long and each of its entries is an address of the
\* map with its data and a key above zero.
TopOfPositive(list, field) ==
    /\ Len(list) <= 10
    /\ \A n \in 1..Len(list) :
         /\ list[n].addr \in PositiveKeys(field)
         /\ list[n].data = address_flows.val[list[n].addr]
         /\ list[n].data[field] > 0

\* C18: top_senders and top_receivers are each at most 10 long, every entry
\* has its key (total_sent, total_received) above zero, and each entry has a
\* key strictly below that of the entry before it.
C18_StrictlyDescending ==
    Topped =>
        /\ TopOfPositive(top_addresses.top_senders, "total_sent")
        /\ TopOfPositive(top_addresses.top_receivers, "total_received")
        /\ \A n \in 1..(Len(top_addresses.top_senders) - 1) :
             top_addresses.top_senders[n].data.total_sent
               > top_addresses.top_senders[n + 1].data.total_sent
        /\ \A n \in 1..(Len(top_addresses.top_receivers) - 1) :
             top_addresses.top_receivers[n].data.total_received
               > top_addresses.top_receivers[n + 1].data.total_received

\* C18, amended: as C18, with each entry's key below or equal to that of the
\* entry before it.
C18_Descending ==
    Topped =>
        /\ TopOfPositive(top_addresses.top_senders, "total_sent")
        /\ TopOfPositive(top_addresses.top_receivers, "total_received")
        /\ \A n \in 1..(Len(top_addresses.top_senders) - 1) :
             top_addresses.top_senders[n].data.total_sent
               >= top_addresses.top_senders[n + 1].data.total_sent
        /\ \A n \in 1..(Len(top_addresses.top_receivers) - 1) :
             top_addresses.top_receivers[n].data.total_received
               >= top_addresses.top_receivers[n + 1].data.total_received

\* C18 witness: 12 addresses have sent an amount and some address has
\* received nothing; top_senders holds 10 of the 12, two neighbours with equal
\* amounts and two with different ones.
C18_Witness ==
    /\ Topped
    /\ Cardinality(PositiveKeys("total_sent")) = 12
    /\ \E a \in KeySet(address_flows) : address_flows.val[a].total_received = 0
    /\ Len(top_addresses.top_senders) = 10
    /\ \E n \in 1..9 : top_addresses.top_senders[n].data.total_sent
                         = top_addresses.top_senders[n + 1].data.total_sent
    /\ \E n \in 1..9 : top_addresses.top_senders[n].data.total_sent
                         > top_addresses.top_senders[n + 1].data.total_sent

\* The list holds the highest entries of the map by the field, equal keys in
\* lexical order of the address.
HighestLexical(list, field) ==
    LET included == { list[n].addr : n \in 1..Len(list) }
        positive == PositiveKeys(field)
    IN /\ included \subseteq positive
       /\ Cardinality(included) = Len(list)
       /\ Len(list) = (IF Cardinality(positive) < 10
                       THEN Cardinality(positive) ELSE 10)
       /\ \A x \in positive \ included : \A y \in included :
             address_flows.val[x][field] <= address_flows.val[y][field]
       /\ \A m, n \in 1..Len(list) :
             (m < n /\ list[m].data[field] = list[n].data[field])
                => LexRank(list[m].addr) < LexRank(list[n].addr)

\* C19: each list returned by analyze_top_addresses holds the 10 addresses
\* of highest key among those with a key above zero (all of them when there
\* are fewer): no address left out has a key above that of an address in the
\* list, and addresses of equal key are in ascending lexical order.
C19_HighestLexicalTies ==
    Topped =>
        /\ HighestLexical(top_addresses.top_senders, "total_sent")
        /\ HighestLexical(top_addresses.top_receivers, "total_received")

\* The nodes of the flow map, in its order.
Nodes == address_flows.keys

TotalFlow(a) == address_flows.val[a].total_received + address_flows.val[a].total_sent

\* The size the claim gives for count transactions, a flow of total_flow BTC
\* and the factor f, and the lower and upper limits, all in thousandths.
ClaimedSize(count, total_flow, f) ==
    (IF count * f > 15 THEN count * f ELSE 15)
    * (1000 + (IF total_flow < 2000 THEN total_flow ELSE 2000))

LowerSize == 15 * 1000

UpperSize(count, f) == 3 * (IF count * f > 15 THEN count * f ELSE 15) * 1000

\* C20: every node's size is max(15, transaction_count * f) * (1 +
\* min(2.0, total_flow / 1000)), with f = 3 in create_bubble_map_plot and
\* f = 4 in create_flow_network_plot and total_flow = total_received +
\* total_sent; the size is never below 15 and never above
\* 3 * max(15, transaction_count * f).
C20_NodeSizes ==
    /\ \A n \in 1..Len(bubble_sizes) :
         LET count == address_flows.val[Nodes[n]].transaction_count
         IN /\ bubble_sizes[n] = ClaimedSize(count, TotalFlow(Nodes[n]), 3)
            /\ bubble_sizes[n] >= LowerSize
            /\ bubble_sizes[n] <= UpperSize(count, 3)
    /\ \A n \in 1..Len(node_size) :
         LET count == address_flows.val[Nodes[n]].transaction_count
         IN /\ node_size[n] = ClaimedSize(count, TotalFlow(Nodes[n]), 4)
            /\ node_size[n] >= LowerSize
            /\ node_size[n] <= UpperSize(count, 4)
    /\ pc = "sized" => Len(bubble_sizes) = Len(Nodes) /\ Len(node_size) = Len(Nodes)

\* C20 witness: both plots have sized two nodes: the main address without
\* any flow at size 15 in both, the other with 4 transactions and a flow of
\* 3000 BTC at 3 * 15 in the bubble plot and 3 * 16 in the network plot.
C20_Witness ==
    /\ pc = "sized"
    /\ Len(Nodes) = 2
    /\ address_flows.val[Nodes[1]].transaction_count = 0
    /\ bubble_sizes[1] = 15000 /\ node_size[1] = 15000
    /\ address_flows.val[Nodes[2]].transaction_count = 4
    /\ TotalFlow(Nodes[2]) = 3000
    /\ bubble_sizes[2] = 45000 /\ node_size[2] = 48000

\* --------------------------------------------------------------------- C21
\* The colour bucket of a colour of the bubble data or of a plot.
Bucket(colour) ==
    CASE colour \in {"blue", "#1E3A8A"} -> "primary"
      [] colour \in {"green", "34, 197, 94"} -> "positive"
      [] colour \in {"red", "239, 68, 68"} -> "negative"
      [] OTHER -> "none"

NetFlow(addr) ==
    address_flows.val[addr].total_received - address_flows.val[addr].total_sent

ClaimedBucket(addr) ==
    IF addr = address THEN "primary"
    ELSE IF NetFlow(addr) > 0 THEN "positive" ELSE "negative"

\* C21: in the bubble data the main address is blue whatever its net flow and
\* every other address is green exactly when total_received - total_sent > 0
\* and red otherwise, a net flow of zero included; the bubble plot and the
\* network plot pick the same bucket for the same address.
C21_ColourBuckets ==
    /\ \A n \in 1..Len(bubble_data.colors) :
         Bucket(bubble_data.colors[n]) = ClaimedBucket(Nodes[n])
    /\ \A n \in 1..Len(colors) :
         Bucket(colors[n].rgb) = ClaimedBucket(Nodes[n])
    /\ \A n \in 1..Len(node_color) :
         Bucket(node_color[n].rgb) = ClaimedBucket(Nodes[n])
    /\ pc \in {"bubble", "network", "sized"} =>
         Len(bubble_data.colors) = Len(Nodes)
    /\ pc \in {"network", "sized"} => Len(colors) = Len(Nodes)
    /\ pc = "sized" => Len(node_color) = Len(Nodes)

\* Both plots are made for a main address that sent more than it received and
\* another address with a net flow of zero: blue and red at the three places.
C21_Witness ==
    /\ pc = "sized"
    /\ Len(Nodes) = 2
    /\ NetFlow(Nodes[1]) < 0
    /\ NetFlow(Nodes[2]) = 0
    /\ bubble_data.colors = <<"blue", "red">>
    /\ colors[1].rgb = "#1E3A8A" /\ colors[2].rgb = "239, 68, 68"
    /\ node_color[1].rgb = "#1E3A8A" /\ node_color[2].rgb = "239, 68, 68"

\* --------------------------------------------------------------------- C22
ToSet(seq) == { seq[n] : n \in 1..Len(seq) }

NoDuplicates(seq) ==
    \A m, n \in 1..Len(seq) : m # n => seq[m] # seq[n]

\* The bubble data bd has exactly one node per entry of the map flows.
OneNodePerEntry(bd, flows) ==
    /\ NoDuplicates(bd.addresses)
    /\ ToSet(bd.addresses) = ToSet(flows.keys)
    /\ Len(bd.addresses) = Len(flows.keys)
    /\ Len(bd.total_flows) = Len(bd.addresses)
    /\ Len(bd.net_flows) = Len(bd.addresses)
    /\ Len(bd.transaction_counts) = Len(bd.addresses)
    /\ Len(bd.colors) = Len(bd.addresses)
    /\ Len(bd.labels) = Len(bd.addresses)

\* C22: a call of create_bubble_map_data emits exactly one node per entry of
\* the flow map (the addresses have no duplicates and are the keys of the map,
\* and addresses, total_flows, net_flows, transaction_counts, colors and
\* labels have the same length) and leaves the flow map unchanged.
C22_OneNodePerEntry ==
    [][bubble_data' # bubble_data =>
         /\ address_flows' = address_flows
         /\ OneNodePerEntry(bubble_data', address_flows)]_vars

\* Bubble data with three nodes, one of them an address without any flow.
C22_Witness ==
    /\ pc = "bubbled"
    /\ Len(address_flows.keys) = 3
    /\ Len(bubble_data.labels) = 3
    /\ \E n \in 1..3 : bubble_data.total_flows[n] = 0

\* --------------------------------------------------------------------- C23
\* C23: the bubble data built from a flow map that analyze_transaction_flow
\* returned for a target has the target at index 0, so that net_flows[0] is
\* the target's net flow, whatever the order of the addresses in the
\* transactions.
C23_TargetFirst ==
    pc = "bubbled" =>
        /\ bubble_data.addresses[1] = address
        /\ bubble_data.main_address = address
        /\ bubble_data.net_flows[1] = NetFlow(address)

\* The first leg of the first transaction is not the target's, the target has
\* a net flow other than zero and is the first of several nodes.
C23_Witness ==
    /\ pc = "bubbled"
    /\ Len(transactions) > 0
    /\ LET first == transactions[1]
           legs == first.vin \o first.vout
       IN Len(legs) > 0 /\ legs[1].addr # address
    /\ Len(bubble_data.addresses) >= 2
    /\ bubble_data.addresses[1] = address
    /\ bubble_data.net_flows[1] # 0

\* --------------------------------------------------------------------- C24
\* The timeline container of the document: the value under
\* transaction_timeline, else under recent_transactions.
Container ==
    IF In("transaction_timeline", data) THEN data.fields["transaction_timeline"]
    ELSE IF In("recent_transactions", data)
    THEN data.fields["recent_transactions"]
    ELSE JNone

HoldsList(c, key) == In(key, c) /\ c.fields[key].type = "list"

\* The key the claim names for a mapping: the first of transactions, data,
\* items, list whose value is a list; "" when there is none.
ClaimedKey(c) ==
    IF HoldsList(c, "transactions") THEN "transactions"
    ELSE IF HoldsList(c, "data") THEN "data"
    ELSE IF HoldsList(c, "items") THEN "items"
    ELSE IF HoldsList(c, "list") THEN "list"
    ELSE ""

\* C24: when the timeline container is a mapping, both plot functions use the
\* sequence under the first of the keys transactions, data, items, list whose
\* value is a list; when no such key holds a list, or the container is
\* neither a list nor a mapping, they return the failure outcome without
\* processing any entry.
C24_ContainerKeys ==
    /\ (Container.type = "dict" /\ ClaimedKey(Container) # "") =>
         LET claimed == Container.fields[ClaimedKey(Container)].items
         IN /\ pc \in {"timeline_plot", "drawn"} => timeline_list = claimed
            /\ pc = "balance" => sorted_entries = SortByDate(claimed)
            /\ pc = "plotted" => balance_plot # "no"
    /\ (\/ Container.type = "dict" /\ ClaimedKey(Container) = ""
        \/ Container.type \notin {"list", "dict"}) =>
         /\ pc \notin {"timeline_plot", "balance"}
         /\ pc = "drawn" =>
              /\ timeline_plot = "None"
              /\ timeline_list = <<>> /\ dates = <<>>
              /\ amounts = <<>> /\ tx_types = <<>>
         /\ pc = "plotted" =>
              /\ balance_plot = "None"
              /\ sorted_entries = <<>> /\ dates = <<>> /\ balances = <<>>

\* The timeline plot is made from the two entries under items of a mapping
\* whose value under transactions is no list.
C24_Witness ==
    /\ Container.type = "dict"
    /\ In("transactions", Container)
    /\ ClaimedKey(Container) = "items"
    /\ pc = "drawn"
    /\ timeline_plot = "value"
    /\ Len(timeline_list) = 2
    /\ Len(dates) = 2

\* --------------------------------------------------------------------- C25
\* The number of entries of the list with a resolvable timestamp.
ResolvableCount(entries) ==
    Cardinality({ n \in 1..Len(entries) : Resolvable(entries[n]) })

\* C25: an entry is left out of the timestamp-dependent views only when none
\* of its fields date, formatted_date, timestamp, tried in that order, yields
\* a parseable timestamp; an entry whose earlier field is unparseable and
\* whose later field is parseable yields a point, and an entry left out
\* never aborts the processing of the others.
C25_TimestampFallback ==
    /\ (pc = "drawn" /\ timeline_plot # "None") =>
         Len(dates) = ResolvableCount(timeline_list)
    /\ (pc = "drawn" /\ timeline_plot = "None") =>
         ResolvableCount(Entries) = 0
    /\ pc = "plotted" =>
         /\ balance_plot # "raised"
         /\ Len(dates) = ResolvableCount(Entries)

\* --------------------------------------------------------------------- C30
\* f picks, in ascending order, the entries the points of the plot come from.
Ascending(f) == \A m, n \in DOMAIN f : m < n => f[m] < f[n]

\* The resolvable entry e gives the date d.
DateFrom(d, e) ==
    /\ Resolvable(e)
    /\ DatetimeOrd(d) = DatetimeOrd(fromtimestamp(EntryTime(e)))

\* C30: in create_transaction_timeline_plot the sequences dates, amounts and
\* tx_types have the same length and their i-th elements come from the same
\* entry of the list, also when entries have no timestamp field or an
\* unparseable one.
C30_AlignedSequences ==
    pc \in {"timeline_plot", "drawn"} =>
        /\ Len(dates) = Len(amounts)
        /\ Len(tx_types) = Len(amounts)
        /\ \E f \in [1..Len(amounts) -> 1..Len(timeline_list)] :
             /\ Ascending(f)
             /\ \A k \in 1..Len(amounts) :
                  LET e == timeline_list[f[k]]
                  IN /\ DateFrom(dates[k], e)
                     /\ amounts[k] = JInt(NetOf(e))
                     /\ tx_types[k] =
                          GetOr(e, "transaction_type", JStr(Text("Unknown")))

\* --------------------------------------------------------------------- C28
\* No detail record was fetched for the call that has returned.
NoneFetched == \A k \in 1..Len(tx_details) : ~tx_details[k]

NoneConfirmed == \A k \in 1..Len(transactions) : ~transactions[k].confirmed

\* C28: a run with zero usable records ends in a no-data value:
\* analyze_transaction_flow returns None when the transaction list is empty
\* and also when every detail fetch fails; create_timeline_data returns a
\* timeline with an empty point list when the input is empty or holds no
\* confirmed transaction.
C28_NoDataOutcome ==
    /\ (pc = "flowed" /\ (transactions = <<>> \/ NoneFetched)) =>
         flow_returned = "None"
    /\ (timeline_data.returned # "no" /\ NoneConfirmed) =>
         /\ timeline_data.returned = "value"
         /\ Points = <<>>

\* --------------------------------------------------------------------- C29
RelatedIds == { network_data.nodes[k].id : k \in 2..Len(network_data.nodes) }

CountOf(a) == clustering_data.connection_details.val[a]

\* C29: create_network_data emits the main node and at most 20 related nodes;
\* when the clustering found more than 20 related addresses, the 20 kept are
\* those with the highest connection counts; every edge runs from the main
\* address to a related node and has that address's connection count as
\* weight, and total_nodes = total_edges + 1.
C29_TopTwenty ==
    pc = "netted" =>
        LET nodes == network_data.nodes
            edges == network_data.edges
            found == ToSet(clustering_data.related_addresses)
        IN /\ nodes[1].id = address /\ nodes[1].type = "main"
           /\ Len(nodes) <= 21
           /\ RelatedIds \subseteq found
           /\ Cardinality(found) > 20 =>
                /\ Cardinality(RelatedIds) = 20
                /\ \A a \in RelatedIds : \A b \in found \ RelatedIds :
                      CountOf(a) >= CountOf(b)
           /\ Len(edges) = Len(nodes) - 1
           /\ \A k \in 1..Len(edges) :
                /\ edges[k].source = address
                /\ edges[k].target = nodes[k + 1].id
                /\ edges[k].weight = CountOf(edges[k].target)
           /\ network_data.graph_metrics.total_nodes = Len(nodes)
           /\ network_data.graph_metrics.total_nodes
                = network_data.graph_metrics.total_edges + 1

\* --------------------------------------------------------------------- C26
\* The batch has a malformed record: a confirmed one without block_time.
Malformed(batch) ==
    \E k \in 1..Len(batch) : batch[k].confirmed /\ batch[k].block_time = 0

\* C26: no failure inside one address's run escapes analyze_address: a
\* malformed record in one address's batch makes that run report failure,
\* and the loop of main goes on to analyse every later address, so that a
\* session that ends has a result for every address entered, each for its
\* own address.
C26_FailureContained ==
    /\ pc # "crashed"
    /\ \A k \in 1..Len(results) :
         /\ results[k].address = prompts[k].address
         /\ (IsValidFormat(prompts[k].address) /\ prompts[k].info_ok
             /\ Malformed(prompts[k].transactions))
              => results[k].json_file = "None"
    /\ pc = "quit" => Len(results) = Len(prompts)

\* --------------------------------------------------------------------- C27
AlwaysKeys == {"address_stats", "address_info", "metadata"}

TransactionKeys ==
    {"recent_transactions", "all_transactions", "clustering_analysis",
     "network_graph", "transaction_timeline"}

\* C27: after any sequence of analyze_address calls on one analyzer, the
\* data a call exports holds only values of that call's address: the keys
\* recent_transactions, all_transactions, clustering_analysis, network_graph
\* and transaction_timeline are absent unless the call set them, also when an
\* earlier call set them and the current address has no transactions, and
\* metadata.address is the current address.
C27_OwnDataOnly ==
    \A k \in 1..Len(results) :
       results[k].json_file = "file" =>
          LET run == prompts[k]
              exported == results[k].exported
          IN /\ exported.val["metadata"].address = run.address
             /\ exported.val["address_info"] = AddressInfo(run.address)
             /\ exported.val["address_stats"].stats_of = run.address
             /\ run.transactions = <<>> => KeySet(exported) = AlwaysKeys
             /\ run.transactions # <<>> =>
                  /\ KeySet(exported) = AlwaysKeys \cup TransactionKeys
                  /\ exported.val["all_transactions"] = run.transactions
                  /\ Len(exported.val["recent_transactions"])
                       = Len(run.transactions)
                  /\ exported.val["network_graph"].main_address = run.address
                  /\ \A n \in 1..Len(exported.val["network_graph"].nodes) :
                        \E m \in 1..Len(run.transactions) :
                           LegCount(run.transactions[m],
                                    exported.val["network_graph"].nodes[n].id) > 0
                  /\ KeySet(exported.val["clustering_analysis"].connection_details)
                       \subseteq UNION { TxAddresses(run.transactions[m]) :
                                          m \in 1..Len(run.transactions) }
                  /\ \A n \in 1..Len(exported.val["transaction_timeline"].transactions) :
                        exported.val["transaction_timeline"].transactions[n].txid
                          \in 1..Len(run.transactions)

\* The second call exports the data of an address without transactions after
\* a call that exported the data of another address with a transaction.
C27_Witness ==
    /\ Len(results) = 2
    /\ results[1].json_file = "file"
    /\ results[2].json_file = "file"
    /\ prompts[1].address # prompts[2].address
    /\ prompts[1].transactions # <<>>
    /\ prompts[2].transactions = <<>>
    /\ KeySet(results[1].exported) = AlwaysKeys \cup TransactionKeys
    /\ KeySet(results[2].exported) = AlwaysKeys
    /\ results[2].exported.val["metadata"].address = prompts[2].address

====
